---- MODULE Spec2Model ----
(***************************************************************************)
(* A model of the CW (Morse) decode pipeline of nwpulei/cw:                *)
(*   Filters.SchmittTrigger / AdaptiveThresholder   (StateDetection.go)    *)
(*   BeamDecoder.CWDecoder  (symbol buffer)         (Decoder.go)           *)
(*   BeamDecoder.BeamDecoder (beam search)          (BeamDecoder.go)       *)
(*   cw.ExperimentalDecoder (per-sample pipeline)   (unnamed/part_003)     *)
(*   cw.SDRDemodulator / Filters.AFC                (sdr.go, part_007)     *)
(*   cw.SpectrumMonitor (audio queue, run loop)     (spectrum_monitor.go)  *)
(*   cw.CWSystem (calibration, replay loop, Stop)   (unnamed/part_006)     *)
(*                                                                         *)
(* float64 quantities are fixed-point integers:                            *)
(*   envelope levels and thresholds   in units of 1/EnvScale               *)
(*   durations and unitTime           in units of 1/DurScale ms            *)
(*   pulses (duration / unitTime)     in units of 1/PulseScale             *)
(*   scores (log-probabilities)       in units of 1/ScoreScale             *)
(*   frequencies                      in units of 1/FreqScale Hz           *)
(*   phases and phase increments      in units of 1/PhaseScale rad         *)
(* Divisions truncate; comparisons are done by cross-multiplication so     *)
(* that they are exact on the fixed-point values.                          *)
(***************************************************************************)
EXTENDS Integers, Sequences, FiniteSets, TLC

VARIABLES
    st,      \* the SchmittTrigger (with its embedded AdaptiveThresholder)
    ret,     \* what the last SchmittTrigger.Feed returned (nil or a StateTransition)
    run,     \* history: the excursion the trigger is currently looking at
    ended,   \* history: the last excursion that ended without a state change
    outs,    \* history: the transitions returned to a direct caller of Feed, summed up
    d,       \* the CWDecoder (symbol buffer, unit time, its analyzer)
    bd,      \* the BeamDecoder (paths, language model)
    hist,    \* history: one record per FeedNew / CheckTimeout call
    exp,     \* the ExperimentalDecoder's own fields
    sink,    \* the texts the OnDecoded callback has received, in order
    sdr,     \* the SDRDemodulator with its AFC
    mon,     \* the SpectrumMonitor and the position of its run goroutine
    sys,     \* the CWSystem's own fields and the recording it replays
    aud,     \* the audio worker's position inside a chunk
    log,     \* history: frequency writes, SetTargetFreq calls, pushed chunks
    load,    \* the bigram file and what NewLanguageModel made of it
    civ,     \* the CIVClient, its serial port and its last ReadFrequency
    pd,      \* the PitchDetector and its last Detect
    opt      \* a HistoryOptimizer and its last SuggestThreshold

vars == <<st, ret, run, ended, outs, d, bd, hist, exp, sink, sdr, mon, sys, aud, log,
          load, civ, pd, opt>>
triggerVars == <<st, ret, run, ended, outs>>
decoderVars == <<d, bd, hist>>
pipelineVars == <<exp, sink>>
systemVars == <<sdr, mon, sys, aud, log>>
deviceVars == <<load, civ, pd, opt>>

\* ------------------------------------------------------------------ bounds
MaxSamples == 9
MaxEvents == 5
MaxPipelineSamples == 12

\* ------------------------------------------------------------- fixed point
EnvScale == 10000

\* --------------------------------------------------------------- helpers
Abs(x) == IF x < 0 THEN -x ELSE x

\* Go's conversion and float division, truncated toward zero.
TruncDiv(a, b) == IF a >= 0 THEN a \div b ELSE -((-a) \div b)

\* ---------------------------------------------- Filters.AdaptiveThresholder
\* decayRate 0.9995 and minRange 0.005 as passed by NewSchmittTrigger.
DecayNum == 9995
DecayDen == 10000
MinRange == 50

NewAdaptiveThresholder == [maxLevel |-> 0, minLevel |-> 0]

\* AdaptiveThresholder.Update: the new tracker state and the (high, low) pair.
ThresholderUpdate(at, sample) ==
    LET max1 == IF sample > at.maxLevel THEN sample
                ELSE TruncDiv(at.maxLevel * DecayNum, DecayDen)
        min1 == IF sample < at.minLevel THEN sample
                ELSE at.minLevel
                     + TruncDiv((max1 - at.minLevel) * (DecayDen - DecayNum), DecayDen)
        min2 == IF min1 > max1 THEN max1 ELSE min1
        dynRange == max1 - min2
        center == min2 + TruncDiv(dynRange * 5, 10)
        hysteresis == TruncDiv(dynRange * 5, 100)
    IN  [at   |-> [maxLevel |-> max1, minLevel |-> min2],
         high |-> IF dynRange < MinRange THEN 10 * EnvScale ELSE center + hysteresis,
         low  |-> IF dynRange < MinRange THEN 9 * EnvScale ELSE center - hysteresis]

\* --------------------------------------------------- Filters.SchmittTrigger
\* Constructor arguments the model draws from.  debounceMs is given in
\* thousandths (the caller passes 0.012); sample rates are in Hz.
SampleRates == {100, 200, 250}
DebounceMs == 12
ThresholdPairs == {<<5000, 4000>>, <<2000, 1600>>}
Envelopes == {1000, 4500, 9000}

NewSchmittTrigger(sampleRate, high, low, debounceMs) ==
    [sampleRate        |-> sampleRate,
     thresholdHigh     |-> high,
     thresholdLow      |-> low,
     debounceCount     |-> TruncDiv(debounceMs * sampleRate, 1000),
     currentState      |-> FALSE,
     totalSamples      |-> 0,
     stateStartSample  |-> 0,
     pendingChange     |-> FALSE,
     changeStartSample |-> 0,
     thresholder       |-> NewAdaptiveThresholder]

Nil == [nil |-> TRUE]

\* The raw Schmitt decision of Feed for a trigger t and an envelope sample.
RawSignal(t, envelope) ==
    IF t.currentState
    THEN (IF envelope < t.thresholdLow THEN FALSE ELSE t.currentState)
    ELSE (IF envelope > t.thresholdHigh THEN TRUE ELSE t.currentState)

\* The duration of a finished state, in ms, from its length in samples.
DurationMs(t, samples) == TruncDiv(samples * 1000, t.sampleRate)

\* Whether Feed commits the pending change (t already counts this sample).
CommitsAtEquality(t) == t.totalSamples - t.changeStartSample >= t.debounceCount
Commits(t) == t.totalSamples - t.changeStartSample > t.debounceCount

\* Feed, raw signal equal to the current state: any pending change is dropped.
StableKeepsPending(t) == t
Stable(t) == [t EXCEPT !.pendingChange = FALSE]

\* Feed, first sample of a disagreement, with the timer started one sample
\* ahead of the count.
StartPendingAhead(t) ==
    [t EXCEPT !.pendingChange = TRUE, !.changeStartSample = t.totalSamples + 1]

\* Feed, first sample of a disagreement: the debounce timer starts.
StartPending(t) ==
    [t EXCEPT !.pendingChange = TRUE, !.changeStartSample = t.totalSamples]

\* Feed, the confirmed change: the new state starts where the change started.
CommitAtCommitSample(t, rawSignal) ==
    [t EXCEPT !.currentState = rawSignal,
              !.stateStartSample = t.totalSamples,
              !.pendingChange = FALSE]
Commit(t, rawSignal) ==
    [t EXCEPT !.currentState = rawSignal,
              !.stateStartSample = t.changeStartSample,
              !.pendingChange = FALSE]

\* The StateTransition of a commit with the duration measured up to the
\* committing sample.
TransitionToNow(t) ==
    [nil |-> FALSE,
     FinishedState |-> t.currentState,
     DurationMs |-> DurationMs(t, t.totalSamples - t.stateStartSample)]

\* The StateTransition of a commit naming the state that begins.
TransitionOfNewState(t) ==
    [nil |-> FALSE,
     FinishedState |-> ~t.currentState,
     DurationMs |-> DurationMs(t, t.changeStartSample - t.stateStartSample)]

\* The StateTransition returned with a commit.
Transition(t) ==
    [nil |-> FALSE,
     FinishedState |-> t.currentState,
     DurationMs |-> DurationMs(t, t.changeStartSample - t.stateStartSample)]

\* Feed with the thresholder's pair applied (st.SetThresholds(h, l) in force).
FeedResultSetsThresholds(t0, envelope) ==
    LET th == ThresholderUpdate(t0.thresholder, envelope)
        t  == [t0 EXCEPT !.totalSamples = @ + 1, !.thresholder = th.at,
                         !.thresholdHigh = th.high, !.thresholdLow = th.low]
        rawSignal == RawSignal(t, envelope)
    IN  IF rawSignal = t.currentState
        THEN [st |-> Stable(t), ret |-> Nil]
        ELSE IF ~t.pendingChange
        THEN [st |-> StartPending(t), ret |-> Nil]
        ELSE IF Commits(t)
        THEN [st |-> Commit(t, rawSignal), ret |-> Transition(t)]
        ELSE [st |-> t, ret |-> Nil]

\* SchmittTrigger.Feed: the trigger afterwards and the returned transition.
FeedResult(t0, envelope) ==
    LET th == ThresholderUpdate(t0.thresholder, envelope)
        t  == [t0 EXCEPT !.totalSamples = @ + 1, !.thresholder = th.at]
        rawSignal == RawSignal(t, envelope)
    IN  IF rawSignal = t.currentState
        THEN [st |-> Stable(t), ret |-> Nil]
        ELSE IF ~t.pendingChange
        THEN [st |-> StartPending(t), ret |-> Nil]
        ELSE IF Commits(t)
        THEN [st |-> Commit(t, rawSignal), ret |-> Transition(t)]
        ELSE [st |-> t, ret |-> Nil]

SetThresholdsResult(t, high, low) ==
    [t EXCEPT !.thresholdHigh = high, !.thresholdLow = low]

\* ---- history of the returned transitions (read by the properties only)
\* How many transitions Feed has returned, the samples they span (a
\* DurationMs of ms is ms/1000 x sampleRate samples), the FinishedState of the
\* first and of the last one, and whether each differed from the one before.
NoTransitions ==
    [count |-> 0, samples |-> 0, shortest |-> 0, first |-> FALSE, last |-> FALSE,
     alternates |-> TRUE]

Returned(o, r, sampleRate) ==
    IF r.nil THEN o
    ELSE LET WithSamples(n) ==
                 [count      |-> o.count + 1,
                  samples    |-> o.samples + n,
                  shortest   |-> IF o.count = 0 \/ n < o.shortest THEN n ELSE o.shortest,
                  first      |-> IF o.count = 0 THEN r.FinishedState ELSE o.first,
                  last       |-> r.FinishedState,
                  alternates |-> o.alternates
                                   /\ (o.count > 0 => r.FinishedState # o.last)]
         IN  WithSamples(TruncDiv(r.DurationMs * sampleRate, 1000))

\* ---- history of the trigger's excursions (read by the properties only)
\* An excursion is a maximal sequence of consecutive samples lying across the
\* threshold from the state `from` that was current, with no change pending,
\* when its first sample arrived.
NoRun == [len |-> 0, from |-> FALSE, first |-> 0, emits |-> 0,
          settled |-> TRUE, start0 |-> 0]

Across(t, from, envelope) ==
    IF from THEN envelope < t.thresholdLow ELSE envelope > t.thresholdHigh

RunAfter(t0, r0, envelope, res) ==
    LET emitted == IF res.ret.nil THEN 0 ELSE 1
    IN  IF r0.len > 0 /\ Across(t0, r0.from, envelope)
        THEN [r0 EXCEPT !.len = @ + 1, !.emits = @ + emitted]
        ELSE IF Across(t0, t0.currentState, envelope)
        THEN [len |-> 1, from |-> t0.currentState, first |-> t0.totalSamples + 1,
              emits |-> emitted, settled |-> ~t0.pendingChange,
              start0 |-> t0.stateStartSample]
        ELSE NoRun


\* ================================================= BeamDecoder.LanguageModel
ScoreScale == 1000

\* math.Log(1e-6) and math.Log(0.05), in 1/ScoreScale.
DefaultProb == -13816
StartProb == -2996

\* The bigram table is read from a file; the model draws it from these
\* tables (a function from <<prev, next>> to a log-probability).
EmptyLM == [k \in {} |-> 0]
SmallLM == [k \in {<<"", "E">>, <<"E", "E">>, <<"E", " ">>, <<"T", " ">>, <<" ", "T">>}
              |-> CASE k = <<"", "E">> -> -2303
                    [] k = <<"E", "E">> -> -1609
                    [] k = <<"E", " ">> -> -693
                    [] k = <<"T", " ">> -> -1204
                    [] k = <<" ", "T">> -> -2120]

\* GetTransitionScore without the start-of-sentence case.
GetTransitionScoreNoStart(lm, prevChar, nextChar) ==
    IF <<prevChar, nextChar>> \in DOMAIN lm THEN lm[<<prevChar, nextChar>>]
    ELSE DefaultProb

GetTransitionScore(lm, prevChar, nextChar) ==
    IF <<prevChar, nextChar>> \in DOMAIN lm THEN lm[<<prevChar, nextChar>>]
    ELSE IF prevChar = "" THEN StartProb
    ELSE DefaultProb

\* ============================================ BeamDecoder.StatisticalAnalyzer
\* Durations and unitTime are in units of 1/DurScale ms.
DurScale == 100

NewAnalyzer(size) ==
    [windowSize |-> size, history |-> [i \in 1..size |-> 0], cursor |-> 0, full |-> FALSE]

AddObservation(s, duration) ==
    LET c == (s.cursor + 1) % s.windowSize
    IN  [s EXCEPT !.history[s.cursor + 1] = duration,
                  !.cursor = c,
                  !.full = IF c = 0 THEN TRUE ELSE @]

\* sort.Float64s: ascending.
SortAsc(seq) ==
    LET values == {seq[i] : i \in DOMAIN seq}
        Below(v) == Cardinality({i \in DOMAIN seq : seq[i] < v})
        UpTo(v) == Cardinality({i \in DOMAIN seq : seq[i] <= v})
    IN  [k \in 1..Len(seq) |-> CHOOSE v \in values : Below(v) < k /\ k <= UpTo(v)]

RECURSIVE SumSeq(_)
SumSeq(seq) == IF seq = <<>> THEN 0 ELSE Head(seq) + SumSeq(Tail(seq))

\* math.Sqrt on a non-negative integer, truncated.
RECURSIVE SqrtBetween(_, _, _)
SqrtBetween(n, lo, hi) ==
    IF lo >= hi THEN lo
    ELSE LET mid == (lo + hi + 1) \div 2
         IN  IF mid * mid <= n THEN SqrtBetween(n, mid, hi) ELSE SqrtBetween(n, lo, mid - 1)

Sqrt(n) == SqrtBetween(n, 0, 46340)

\* calculateStats: mean and standard deviation (the deviations are squared in
\* whole milliseconds).
CalculateStats(data) ==
    IF data = <<>> THEN [Mean |-> 0, StdDev |-> 0, Count |-> 0]
    ELSE LET Around(mean) ==
                 [Mean   |-> mean,
                  StdDev |-> Sqrt(TruncDiv(SumSeq([i \in DOMAIN data |->
                                     TruncDiv(data[i] - mean, DurScale)
                                     * TruncDiv(data[i] - mean, DurScale)]), Len(data)))
                             * DurScale,
                  Count  |-> Len(data)]
         IN  Around(TruncDiv(SumSeq(data), Len(data)))

\* The scan of Analyze for the largest gap between 0-based indices i and i+1.
RECURSIVE MaxGapScan(_, _, _, _, _)
MaxGapScan(data, i, endIndex, maxGap, splitIndex) ==
    IF i >= endIndex THEN [maxGap |-> maxGap, splitIndex |-> splitIndex]
    ELSE LET gap == data[i + 2] - data[i + 1]
         IN  IF gap > maxGap THEN MaxGapScan(data, i + 1, endIndex, gap, i)
             ELSE MaxGapScan(data, i + 1, endIndex, maxGap, splitIndex)

\* Confidence and learning rates are in 1/AlphaScale.
AlphaScale == 10000

Invalid == [Valid |-> FALSE]

\* StdDev / Mean in 1/AlphaScale.
CoeffVar(stats) ==
    IF stats.Mean < DurScale THEN AlphaScale * AlphaScale
    ELSE TruncDiv(TruncDiv(stats.StdDev, DurScale) * AlphaScale, TruncDiv(stats.Mean, DurScale))

Analyze(s) ==
    IF ~s.full THEN Invalid
    ELSE LET Result(dits, dahs, ditStats, dahStats) ==
                 LET confidence == AlphaScale
                                   - TruncDiv(CoeffVar(ditStats) + CoeffVar(dahStats), 2)
                 IN  [Valid            |-> TRUE,
                      OptimalThreshold |-> TruncDiv(dits[Len(dits)] + dahs[1], 2),
                      DitStats         |-> ditStats,
                      DahStats         |-> dahStats,
                      Confidence       |-> IF confidence < 0 THEN TruncDiv(AlphaScale, 10)
                                           ELSE confidence]
             Split(dits, dahs) == Result(dits, dahs, CalculateStats(dits), CalculateStats(dahs))
             Scanned(data, scan) ==
                 IF scan.maxGap < 20 * DurScale THEN Invalid
                 ELSE Split(SubSeq(data, 1, scan.splitIndex + 1),
                            SubSeq(data, scan.splitIndex + 2, Len(data)))
             Sorted(data) ==
                 Scanned(data, MaxGapScan(data, TruncDiv(s.windowSize * 25, 100),
                                          TruncDiv(s.windowSize * 75, 100), 0, -1))
         IN  Sorted(SortAsc(s.history))

\* ===================================================== BeamDecoder.BeamDecoder
PulseScale == 1000

Patterns == <<
    [Char |-> "A", Sequence |-> <<1, 1, 3>>],
    [Char |-> "B", Sequence |-> <<3, 1, 1, 1, 1, 1, 1>>],
    [Char |-> "C", Sequence |-> <<3, 1, 1, 1, 3, 1, 1>>],
    [Char |-> "D", Sequence |-> <<3, 1, 1, 1, 1>>],
    [Char |-> "E", Sequence |-> <<1>>],
    [Char |-> "F", Sequence |-> <<1, 1, 1, 1, 3, 1, 1>>],
    [Char |-> "G", Sequence |-> <<3, 1, 3, 1, 1>>],
    [Char |-> "H", Sequence |-> <<1, 1, 1, 1, 1, 1, 1>>],
    [Char |-> "I", Sequence |-> <<1, 1, 1>>],
    [Char |-> "J", Sequence |-> <<1, 1, 3, 1, 3, 1, 3>>],
    [Char |-> "K", Sequence |-> <<3, 1, 1, 1, 3>>],
    [Char |-> "L", Sequence |-> <<1, 1, 3, 1, 1, 1, 1>>],
    [Char |-> "M", Sequence |-> <<3, 1, 3>>],
    [Char |-> "N", Sequence |-> <<3, 1, 1>>],
    [Char |-> "O", Sequence |-> <<3, 1, 3, 1, 3>>],
    [Char |-> "P", Sequence |-> <<1, 1, 3, 1, 3, 1, 1>>],
    [Char |-> "Q", Sequence |-> <<3, 1, 3, 1, 1, 1, 3>>],
    [Char |-> "R", Sequence |-> <<1, 1, 3, 1, 1>>],
    [Char |-> "S", Sequence |-> <<1, 1, 1, 1, 1>>],
    [Char |-> "T", Sequence |-> <<3>>],
    [Char |-> "U", Sequence |-> <<1, 1, 1, 1, 3>>],
    [Char |-> "V", Sequence |-> <<1, 1, 1, 1, 1, 1, 3>>],
    [Char |-> "W", Sequence |-> <<1, 1, 3, 1, 3>>],
    [Char |-> "X", Sequence |-> <<3, 1, 1, 1, 1, 1, 3>>],
    [Char |-> "Y", Sequence |-> <<3, 1, 1, 1, 3, 1, 3>>],
    [Char |-> "Z", Sequence |-> <<3, 1, 3, 1, 1, 1, 1>>],
    [Char |-> "0", Sequence |-> <<3, 1, 3, 1, 3, 1, 3, 1, 3>>],
    [Char |-> "1", Sequence |-> <<1, 1, 3, 1, 3, 1, 3, 1, 3>>],
    [Char |-> "2", Sequence |-> <<1, 1, 1, 1, 3, 1, 3, 1, 3>>],
    [Char |-> "3", Sequence |-> <<1, 1, 1, 1, 1, 1, 3, 1, 3>>],
    [Char |-> "4", Sequence |-> <<1, 1, 1, 1, 1, 1, 1, 1, 3>>],
    [Char |-> "5", Sequence |-> <<1, 1, 1, 1, 1, 1, 1, 1, 1>>],
    [Char |-> "6", Sequence |-> <<3, 1, 1, 1, 1, 1, 1, 1, 1>>],
    [Char |-> "7", Sequence |-> <<3, 1, 3, 1, 1, 1, 1, 1, 1>>],
    [Char |-> "8", Sequence |-> <<3, 1, 3, 1, 3, 1, 1, 1, 1>>],
    [Char |-> "9", Sequence |-> <<3, 1, 3, 1, 3, 1, 3, 1, 1>>],
    [Char |-> ".", Sequence |-> <<1, 1, 3, 1, 1, 1, 3, 1, 1, 1, 3>>],
    [Char |-> ",", Sequence |-> <<3, 1, 3, 1, 1, 1, 1, 1, 3, 1, 3>>],
    [Char |-> "?", Sequence |-> <<1, 1, 1, 1, 3, 1, 3, 1, 1, 1, 1>>],
    [Char |-> "'", Sequence |-> <<1, 1, 3, 1, 3, 1, 3, 1, 3, 1, 1>>],
    [Char |-> "!", Sequence |-> <<3, 1, 1, 1, 3, 1, 1, 1, 3, 1, 3>>],
    [Char |-> "/", Sequence |-> <<3, 1, 1, 1, 1, 1, 3, 1, 1>>],
    [Char |-> "(", Sequence |-> <<3, 1, 1, 1, 3, 1, 3, 1, 1>>],
    [Char |-> ")", Sequence |-> <<3, 1, 1, 1, 3, 1, 3, 1, 1, 1, 3>>],
    [Char |-> "&", Sequence |-> <<1, 1, 3, 1, 1, 1, 1, 1, 1>>],
    [Char |-> ":", Sequence |-> <<3, 1, 3, 1, 3, 1, 1, 1, 1, 1, 1>>],
    [Char |-> ";", Sequence |-> <<3, 1, 1, 1, 3, 1, 1, 1, 3, 1, 1>>],
    [Char |-> "=", Sequence |-> <<3, 1, 1, 1, 1, 1, 1, 1, 3>>],
    [Char |-> "+", Sequence |-> <<1, 1, 3, 1, 1, 1, 3, 1, 1>>],
    [Char |-> "-", Sequence |-> <<3, 1, 1, 1, 1, 1, 1, 1, 1, 1, 3>>],
    [Char |-> "_", Sequence |-> <<1, 1, 1, 1, 3, 1, 3, 1, 1, 1, 3>>],
    [Char |-> "\"", Sequence |-> <<1, 1, 3, 1, 1, 1, 1, 1, 3, 1, 1>>],
    [Char |-> "$", Sequence |-> <<1, 1, 1, 1, 1, 1, 3, 1, 1, 1, 1, 1, 3>>],
    [Char |-> "@", Sequence |-> <<1, 1, 3, 1, 3, 1, 1, 1, 3, 1, 1>>]
>>

\* Config of the pruning.
MaxBeamWidth == 20
PruneThreshold == 10

\* Standard deviations in hundredths: the fallback of Step (0.2, 0.4).
FallbackDitStdDev == 20
FallbackDahStdDev == 40

\* Mutant of the head of Step: the fallback is taken whatever Analyze says.
CurrentStatsAlwaysFallback(b) ==
    [DitStats |-> [StdDev |-> FallbackDitStdDev], DahStats |-> [StdDev |-> FallbackDahStdDev]]

\* The head of Step: currentStats is the analysis of the beam decoder's own
\* analyzer, or the fallback while that analysis is not valid.  The scorer
\* reads the deviations as they are (1/DurScale ms read as hundredths).
CurrentStats(b) ==
    LET currentStats == Analyze(b.statsAnalyzer)
    IN  IF ~currentStats.Valid
        THEN [DitStats |-> [StdDev |-> FallbackDitStdDev],
              DahStats |-> [StdDev |-> FallbackDahStdDev]]
        ELSE [DitStats |-> [StdDev |-> currentStats.DitStats.StdDev],
              DahStats |-> [StdDev |-> currentStats.DahStats.StdDev]]

\* The clamp of sigma to [0.25, 5.0], in hundredths.
ClampSigma(sigma) == IF sigma < 25 THEN 25 ELSE IF sigma > 500 THEN 500 ELSE sigma

\* One term -(diff^2) / (2 sigma^2) in 1/ScoreScale: diff is in 1/PulseScale
\* and sigma in hundredths, so the term is -(5 diff^2) / sigma^2.  With
\* |diff| = a sigma + r the quotient is 5 a^2 + (10 a r sigma + 5 r^2) / sigma^2,
\* which keeps the products within 32 bits.
TermScore(observed, expected, ditSigma, dahSigma) ==
    LET Term(sigma, diff) ==
            LET a == diff \div sigma
                r == diff % sigma
            IN  -(5 * a * a + (10 * a * r * sigma + 5 * r * r) \div (sigma * sigma))
    IN  Term(ClampSigma(IF expected > 2 THEN dahSigma ELSE ditSigma),
             Abs(observed - expected * PulseScale))

RECURSIVE SumTerms(_, _, _, _, _)
SumTerms(signal, pattern, i, ditSigma, dahSigma) ==
    IF i > Len(signal) THEN 0
    ELSE TermScore(signal[i], pattern[i], ditSigma, dahSigma)
         + SumTerms(signal, pattern, i + 1, ditSigma, dahSigma)

\* Mutant of the scorer: a signal longer than the pattern is scored on its
\* first elements instead of being rejected.
CalculateEmissionScorePrefix(signal, pattern, ditSigma, dahSigma) ==
    IF Len(signal) < Len(pattern) THEN -1000 * ScoreScale
    ELSE SumTerms(SubSeq(signal, 1, Len(pattern)), pattern, 1, ditSigma, dahSigma)

CalculateEmissionScore_Advanced(signal, pattern, ditSigma, dahSigma) ==
    IF Len(signal) # Len(pattern) THEN -1000 * ScoreScale
    ELSE SumTerms(signal, pattern, 1, ditSigma, dahSigma)

\* The candidates of Step for one previous path, in pattern order.
RECURSIVE ExpandPath(_, _, _, _, _)
ExpandPath(lm, stats, prevPath, inputSignal, k) ==
    IF k > Len(Patterns) THEN <<>>
    ELSE LET pattern   == Patterns[k]
             emitScore == CalculateEmissionScore_Advanced(
                              inputSignal, pattern.Sequence,
                              stats.DitStats.StdDev, stats.DahStats.StdDev)
             rest      == ExpandPath(lm, stats, prevPath, inputSignal, k + 1)
         IN  IF emitScore < -50 * ScoreScale THEN rest
             ELSE <<[Sentence   |-> Append(prevPath.Sentence, pattern.Char),
                     LastChar   |-> pattern.Char,
                     TotalScore |-> prevPath.TotalScore + emitScore
                                    + GetTransitionScore(lm, prevPath.LastChar, pattern.Char)]>>
                  \o rest

RECURSIVE Expand(_, _, _, _, _)
Expand(lm, stats, paths, inputSignal, j) ==
    IF j > Len(paths) THEN <<>>
    ELSE ExpandPath(lm, stats, paths[j], inputSignal, 1)
         \o Expand(lm, stats, paths, inputSignal, j + 1)

RemoveAt(seq, i) == SubSeq(seq, 1, i - 1) \o SubSeq(seq, i + 1, Len(seq))

\* sort.Slice by TotalScore, descending.  The sort is not stable: every
\* order of equal scores is a possible outcome.
RECURSIVE SortedOrders(_)
SortedOrders(c) ==
    IF c = <<>> THEN {<<>>}
    ELSE LET top == {i \in DOMAIN c : \A j \in DOMAIN c : c[i].TotalScore >= c[j].TotalScore}
         IN  UNION {{<<c[i]>> \o r : r \in SortedOrders(RemoveAt(c, i))} : i \in top}

\* Mutant of the loop: a later candidate takes the place of the survivor
\* with its LastChar.
RECURSIVE SurvivorsKeepLast(_, _, _, _)
SurvivorsKeepLast(sorted, k, bestScore, survivors) ==
    IF k > Len(sorted) THEN survivors
    ELSE IF Len(survivors) >= MaxBeamWidth THEN survivors
    ELSE IF sorted[k].TotalScore < bestScore - PruneThreshold * ScoreScale THEN survivors
    ELSE IF \E i \in DOMAIN survivors : survivors[i].LastChar = sorted[k].LastChar
    THEN SurvivorsKeepLast(sorted, k + 1, bestScore,
             [i \in DOMAIN survivors |->
                 IF survivors[i].LastChar = sorted[k].LastChar THEN sorted[k]
                 ELSE survivors[i]])
    ELSE SurvivorsKeepLast(sorted, k + 1, bestScore, Append(survivors, sorted[k]))

\* The loop of PrunePaths over the sorted candidates, from position k.
RECURSIVE Survivors(_, _, _, _)
Survivors(sorted, k, bestScore, survivors) ==
    IF k > Len(sorted) THEN survivors
    ELSE IF Len(survivors) >= MaxBeamWidth THEN survivors
    ELSE IF sorted[k].TotalScore < bestScore - PruneThreshold * ScoreScale THEN survivors
    ELSE IF \E i \in DOMAIN survivors : survivors[i].LastChar = sorted[k].LastChar
    THEN Survivors(sorted, k + 1, bestScore, survivors)
    ELSE Survivors(sorted, k + 1, bestScore, Append(survivors, sorted[k]))

\* Mutant of the loop: no de-duplication by LastChar and no score window.
RECURSIVE SurvivorsKeepAll(_, _, _, _)
SurvivorsKeepAll(sorted, k, bestScore, survivors) ==
    IF k > Len(sorted) THEN survivors
    ELSE IF Len(survivors) >= MaxBeamWidth THEN survivors
    ELSE SurvivorsKeepAll(sorted, k + 1, bestScore, Append(survivors, sorted[k]))

PrunePathsKeepAll(candidates) ==
    IF candidates = <<>> THEN {candidates}
    ELSE {SurvivorsKeepAll(s, 1, s[1].TotalScore, <<>>) : s \in SortedOrders(candidates)}

\* PrunePaths: the possible survivor lists.
PrunePaths(candidates) ==
    IF candidates = <<>> THEN {candidates}
    ELSE {Survivors(s, 1, s[1].TotalScore, <<>>) : s \in SortedOrders(candidates)}

NewBeamDecoder(lm) ==
    [lm            |-> lm,
     paths         |-> <<[Sentence |-> <<>>, LastChar |-> "", TotalScore |-> 0]>>,
     statsAnalyzer |-> NewAnalyzer(20)]

\* Mutant of Step: no crash prevention, an empty candidate list is pruned
\* and stored like any other.
StepNoGuard(b, inputSignal) ==
    {[b EXCEPT !.paths = p] : p \in PrunePaths(Expand(b.lm, CurrentStats(b), b.paths, inputSignal, 1))}

\* BeamDecoder.Step: the possible decoders afterwards.
Step(b, inputSignal) ==
    LET Pruned(candidates) ==
            IF candidates = <<>> THEN {b}
            ELSE {[b EXCEPT !.paths = p] : p \in PrunePaths(candidates)}
    IN  Pruned(Expand(b.lm, CurrentStats(b), b.paths, inputSignal, 1))

GetResult(b) == IF b.paths = <<>> THEN <<>> ELSE b.paths[1].Sentence

\* Mutant of InjectSpace's loop body: the space is appended to every path.
SpacedPathAlways(lm, p) ==
    [Sentence   |-> Append(p.Sentence, " "),
     LastChar   |-> " ",
     TotalScore |-> p.TotalScore + GetTransitionScore(lm, p.LastChar, " ")]

\* Mutant of InjectSpace's loop body: the space is appended but LastChar
\* stays the character before it.
SpacedPathKeepsLastChar(lm, p) ==
    IF Len(p.Sentence) > 0 /\ p.Sentence[Len(p.Sentence)] = " " THEN p
    ELSE IF p.Sentence = <<>> THEN p
    ELSE [Sentence   |-> Append(p.Sentence, " "),
          LastChar   |-> p.LastChar,
          TotalScore |-> p.TotalScore + GetTransitionScore(lm, p.LastChar, " ")]

\* The paths of InjectSpace before the re-prune.
SpacedPath(lm, p) ==
    IF Len(p.Sentence) > 0 /\ p.Sentence[Len(p.Sentence)] = " " THEN p
    ELSE IF p.Sentence = <<>> THEN p
    ELSE [Sentence   |-> Append(p.Sentence, " "),
          LastChar   |-> " ",
          TotalScore |-> p.TotalScore + GetTransitionScore(lm, p.LastChar, " ")]

\* BeamDecoder.InjectSpace: the possible decoders afterwards.
InjectSpace(b) ==
    {[b EXCEPT !.paths = p] :
        p \in PrunePaths([i \in DOMAIN b.paths |-> SpacedPath(b.lm, b.paths[i])])}


\* ======================================================= BeamDecoder.CWDecoder
StateOn == 1
StateOff == 0

\* DecoderConfig values the model draws from: the one of the unit tests and
\* the one of NewExperimentalDecoder.  GlitchThresholdMs is in 1/DurScale ms,
\* UpdateAlpha in 1/AlphaScale.
TestConfig == [InitialWPM |-> 20, GlitchThresholdMs |-> 20 * DurScale, UpdateAlpha |-> 0]
ExperimentalConfig ==
    [InitialWPM |-> 30, GlitchThresholdMs |-> 20 * DurScale, UpdateAlpha |-> 2500]

NewCWDecoder(cfg) ==
    [cfg                 |-> cfg,
     unitTime            |-> TruncDiv(1200 * DurScale, cfg.InitialWPM),
     pendingMarkDuration |-> 0,
     lastGapDuration     |-> 0,
     pulseBuffer         |-> <<>>,
     pulseKinds          |-> <<>>,
     statsAnalyzer       |-> NewAnalyzer(10)]

\* dur / unitTime, in 1/PulseScale.
Pulse(dur, unitTime) == TruncDiv(dur * PulseScale, unitTime)

AddCode(dd, dur) ==
    [dd EXCEPT !.pulseBuffer = Append(@, Pulse(dur, dd.unitTime))]

\* pulseKinds is history: what each pulse of pulseBuffer was appended as
\* (the code keeps no such tag; it is read by the properties only).
Tagged(dd, kind) ==
    [dd EXCEPT !.pulseKinds = IF Len(dd.pulseBuffer) > Len(@) THEN Append(@, kind)
                              ELSE SubSeq(@, 1, Len(dd.pulseBuffer))]

\* Mutant of delCode: the last pulse is read but stays in the buffer.
DelCodeKeepsPulse(dd) ==
    [d       |-> dd,
     prevGap |-> TruncDiv(dd.pulseBuffer[Len(dd.pulseBuffer)] * dd.unitTime, PulseScale)]

\* delCode: the decoder without its last pulse, and that pulse back in ms.
DelCode(dd) ==
    LET lastIndex == Len(dd.pulseBuffer)
    IN  [d       |-> [dd EXCEPT !.pulseBuffer = SubSeq(@, 1, lastIndex - 1)],
         prevGap |-> TruncDiv(dd.pulseBuffer[lastIndex] * dd.unitTime, PulseScale)]

\* Mutant of getThreshold: the learning rate of a valid analysis is not
\* clipped.
GetThresholdUnclipped(dd, dur) ==
    LET With(sa, stats) ==
            [d            |-> [dd EXCEPT !.statsAnalyzer = sa],
             threshold    |-> IF stats.Valid THEN stats.OptimalThreshold
                              ELSE TruncDiv(dd.unitTime * 22, 10),
             currentAlpha |-> IF stats.Valid
                              THEN TruncDiv(dd.cfg.UpdateAlpha * stats.Confidence, AlphaScale)
                              ELSE dd.cfg.UpdateAlpha]
        Observed(sa) == With(sa, Analyze(sa))
    IN  Observed(AddObservation(dd.statsAnalyzer, dur))

\* getThreshold: the decoder with the observation added, the dit/dah
\* threshold and the learning rate.
GetThreshold(dd, dur) ==
    LET With(sa, stats) ==
            [d            |-> [dd EXCEPT !.statsAnalyzer = sa],
             threshold    |-> IF stats.Valid THEN stats.OptimalThreshold
                              ELSE TruncDiv(dd.unitTime * 22, 10),
             currentAlpha |-> IF stats.Valid
                              THEN LET scaled == TruncDiv(dd.cfg.UpdateAlpha * stats.Confidence,
                                                          AlphaScale)
                                   IN  IF scaled < 500 THEN 500
                                       ELSE IF scaled > 5000 THEN 5000 ELSE scaled
                              ELSE dd.cfg.UpdateAlpha]
        Observed(sa) == With(sa, Analyze(sa))
    IN  Observed(AddObservation(dd.statsAnalyzer, dur))

UpdateWPM1(dd, dur) ==
    LET Smoothed(g, sampleUnit) ==
            LET u  == dd.unitTime
                u1 == IF 2 * sampleUnit > u /\ 2 * sampleUnit < 3 * u
                      THEN TruncDiv(g.currentAlpha * sampleUnit
                                    + (AlphaScale - g.currentAlpha) * u, AlphaScale)
                      ELSE u
            IN  [g.d EXCEPT !.unitTime = IF u1 < 10 * DurScale THEN 60 * DurScale ELSE u1]
        With(g) == Smoothed(g, IF dur > g.threshold THEN TruncDiv(dur, 3) ELSE dur)
    IN  With(GetThreshold(dd, dur))

\* The record the model keeps of one call (read by the properties only).
Call(op, dur, state, dd, b) ==
    [op |-> op, dur |-> dur, state |-> state, branch |-> "none", mark |-> "none",
     settledMark |-> 0, settledGap |-> 0, unit |-> dd.unitTime,
     bufSettled |-> dd.pulseBuffer,
     stepped |-> FALSE, stepInput |-> <<>>, stepKinds |-> <<>>,
     spaced |-> FALSE, addedGap |-> FALSE,
     pathsBefore |-> b.paths, pathsStep |-> b.paths, text |-> <<>>, d |-> dd,
     stats |-> CurrentStats(b)]

\* FeedNew, a gap event: the duration is kept for the next mark to settle.
FeedGap(dd, b, durationMs) ==
    LET d1 == [dd EXCEPT !.lastGapDuration = @ + durationMs]
    IN  {[d |-> d1, bd |-> b, text |-> <<>>,
          call |-> [Call("FeedNew", durationMs, StateOff, d1, b) EXCEPT !.branch = "gap"]]}

\* Mutant of the stitching: the short gap is dropped instead of merged.
FeedStitchDropsGap(dd, b, durationMs) ==
    LET d1 == [dd EXCEPT !.pendingMarkDuration = @ + durationMs,
                         !.lastGapDuration = 0]
    IN  {[d |-> d1, bd |-> b, text |-> <<>>,
          call |-> [Call("FeedNew", durationMs, StateOn, d1, b) EXCEPT !.branch = "stitch"]]}

\* FeedNew, a mark after a gap shorter than the glitch threshold: stitched.
FeedStitch(dd, b, durationMs) ==
    LET d1 == [dd EXCEPT !.pendingMarkDuration = @ + dd.lastGapDuration + durationMs,
                         !.lastGapDuration = 0]
    IN  {[d |-> d1, bd |-> b, text |-> <<>>,
          call |-> [Call("FeedNew", durationMs, StateOn, d1, b) EXCEPT !.branch = "stitch"]]}

\* FeedNew, settling the pending mark: stored, or dropped as a spike with its
\* duration (and the gap before it, if the buffer holds one) added to the gap.
SettleMark(dd) ==
    IF dd.pendingMarkDuration > 0
    THEN IF dd.pendingMarkDuration > dd.cfg.GlitchThresholdMs
         THEN Tagged(AddCode(UpdateWPM1(dd, dd.pendingMarkDuration),
                             dd.pendingMarkDuration), "mark")
         ELSE IF Len(dd.pulseBuffer) > 0
         THEN LET r == DelCode(dd)
              IN  [Tagged(r.d, "none") EXCEPT
                      !.lastGapDuration = @ + r.prevGap + dd.pendingMarkDuration]
         ELSE [dd EXCEPT !.lastGapDuration = @ + dd.pendingMarkDuration]
    ELSE dd

MarkKind(dd) ==
    IF dd.pendingMarkDuration <= 0 THEN "none"
    ELSE IF dd.pendingMarkDuration > dd.cfg.GlitchThresholdMs THEN "real" ELSE "glitch"

\* The gap thresholds of FeedNew: 2.5 and 5.0 unit times.
IsBoundaryAtEquality(dd) == dd.lastGapDuration * 10 >= dd.unitTime * 25
IsBoundary(dd) == dd.lastGapDuration * 10 > dd.unitTime * 25
IsWordGap(dd) == dd.lastGapDuration > dd.unitTime * 5

\* The decoder calls of FeedNew on a boundary gap: Step, then InjectSpace.
BoundarySpaceFirst(b, buffer, word) ==
    LET spaced == IF word THEN InjectSpace(b) ELSE {b}
    IN  UNION {{[step |-> s, bd |-> r] : r \in Step(s, buffer)} : s \in spaced}
Boundary(b, buffer, word) ==
    LET stepped == IF Len(buffer) > 0 THEN Step(b, buffer) ELSE {b}
    IN  UNION {{[step |-> s, bd |-> r] : r \in (IF word THEN InjectSpace(s) ELSE {s})}
               : s \in stepped}

\* FeedNew, a mark that is not stitched: the pending mark and the gap before
\* this mark are settled, and the mark is staged.
FeedSettle(dd, b, durationMs) ==
    LET Stage(x) == [x EXCEPT !.pendingMarkDuration = durationMs, !.lastGapDuration = 0]
        Base(d1) == [Call("FeedNew", durationMs, StateOn, d1, b) EXCEPT
                        !.branch = "settle", !.mark = MarkKind(dd),
                        !.settledMark = dd.pendingMarkDuration,
                        !.settledGap = d1.lastGapDuration]
        Stepped(d1, d3, base) ==
            {[d |-> d3, bd |-> o.bd, text |-> GetResult(o.bd),
              call |-> [base EXCEPT !.stepped = Len(d1.pulseBuffer) > 0,
                                    !.stepInput = d1.pulseBuffer,
                                    !.stepKinds = d1.pulseKinds,
                                    !.spaced = IsWordGap(d1),
                                    !.pathsStep = o.step.paths,
                                    !.text = GetResult(o.bd),
                                    !.d = d3]]
             : o \in Boundary(b, d1.pulseBuffer, IsWordGap(d1))}
        Continued(d1, d3, base) ==
            {[d |-> d3, bd |-> b, text |-> GetResult(b),
              call |-> [base EXCEPT !.addedGap = Len(d3.pulseBuffer) > Len(d1.pulseBuffer),
                                    !.text = GetResult(b),
                                    !.d = d3]]}
        Settled(d1) ==
            IF IsBoundary(d1)
            THEN Stepped(d1, Stage(Tagged([d1 EXCEPT !.pulseBuffer = <<>>], "none")),
                         Base(d1))
            ELSE Continued(d1,
                           Stage(IF d1.lastGapDuration > 0 /\ Len(d1.pulseBuffer) > 0
                                 THEN Tagged(AddCode(d1, d1.lastGapDuration), "gap")
                                 ELSE d1),
                           Base(d1))
    IN  Settled(SettleMark(dd))

\* CWDecoder.FeedNew: the possible outcomes of one call.
FeedNewResults(dd, b, durationMs, state) ==
    IF state = StateOff THEN FeedGap(dd, b, durationMs)
    ELSE IF dd.lastGapDuration > 0 /\ dd.lastGapDuration < dd.cfg.GlitchThresholdMs
    THEN FeedStitch(dd, b, durationMs)
    ELSE FeedSettle(dd, b, durationMs)

\* Mutant of CheckTimeout: the pending mark is flushed but stays pending.
CheckTimeoutKeepsPending(dd, b) ==
    IF dd.pendingMarkDuration > 0
    THEN LET Flushed(d1, d2) ==
                 {[d |-> d2, bd |-> s, text |-> GetResult(s),
                   call |-> [Call("CheckTimeout", 0, StateOff, d2, b) EXCEPT
                                !.branch = "timeout", !.mark = "real",
                                !.bufSettled = d1.pulseBuffer,
                                !.settledMark = dd.pendingMarkDuration,
                                !.stepped = TRUE, !.stepInput = d1.pulseBuffer,
                                !.stepKinds = d1.pulseKinds,
                                !.pathsStep = s.paths, !.text = GetResult(s)]]
                  : s \in Step(b, d1.pulseBuffer)}
             Added(d1) == Flushed(d1, Tagged([d1 EXCEPT !.pulseBuffer = <<>>], "none"))
         IN  Added(Tagged(AddCode(dd, dd.pendingMarkDuration), "mark"))
    ELSE {[d |-> dd, bd |-> b, text |-> <<>>,
           call |-> [Call("CheckTimeout", 0, StateOff, dd, b) EXCEPT !.branch = "idle"]]}

\* CWDecoder.CheckTimeout: the possible outcomes of one call.
CheckTimeoutResults(dd, b) ==
    IF dd.pendingMarkDuration > 0
    THEN LET Flushed(d1, d2) ==
                 {[d |-> d2, bd |-> s, text |-> GetResult(s),
                   call |-> [Call("CheckTimeout", 0, StateOff, d2, b) EXCEPT
                                !.branch = "timeout", !.mark = "real",
                                !.bufSettled = d1.pulseBuffer,
                                !.settledMark = dd.pendingMarkDuration,
                                !.stepped = TRUE, !.stepInput = d1.pulseBuffer,
                                !.stepKinds = d1.pulseKinds,
                                !.pathsStep = s.paths, !.text = GetResult(s)]]
                  : s \in Step(b, d1.pulseBuffer)}
             Added(d1) == Flushed(d1, Tagged([d1 EXCEPT !.pulseBuffer = <<>>], "none"))
         IN  Added([Tagged(AddCode(dd, dd.pendingMarkDuration), "mark") EXCEPT
                       !.pendingMarkDuration = 0])
    ELSE {[d |-> dd, bd |-> b, text |-> <<>>,
           call |-> [Call("CheckTimeout", 0, StateOff, dd, b) EXCEPT !.branch = "idle"]]}

\* ================================================== Filters.HistoryOptimizer
\* buffer holds the slots up to the highest one written; the slots after it
\* are the zeros the buffer was made with.
NewHistoryOptimizer(historyDuration, sampleRate) ==
    [buffer     |-> <<>>,
     bufferSize |-> historyDuration * 100,
     head       |-> 0,
     isFull     |-> FALSE,
     downSample |-> IF sampleRate \div 100 < 1 THEN 1 ELSE sampleRate \div 100,
     counter    |-> 0]

Push(h, value) ==
    IF h.counter + 1 < h.downSample THEN [h EXCEPT !.counter = @ + 1]
    ELSE [h EXCEPT !.counter = 0,
                   !.buffer = IF h.head < Len(@) THEN [@ EXCEPT ![h.head + 1] = value]
                              ELSE Append(@, value),
                   !.head = (@ + 1) % h.bufferSize,
                   !.isFull = IF (h.head + 1) % h.bufferSize = 0 THEN TRUE ELSE @]

\* SuggestThreshold: the best threshold, the signal peak and the noise floor.
SuggestThresholdResult(h) ==
    IF ~h.isFull /\ h.head = 0
    THEN [threshold |-> TruncDiv(EnvScale * 5, 100), peak |-> TruncDiv(EnvScale, 10),
          noise |-> 0]
    ELSE LET Picked(noiseFloor, signalPeak) ==
                 [threshold |-> IF signalPeak * 10 < noiseFloor * 15 THEN noiseFloor * 3
                                ELSE noiseFloor + TruncDiv((signalPeak - noiseFloor) * 2, 10),
                  peak |-> signalPeak, noise |-> noiseFloor]
             Sorted(data) == Picked(data[TruncDiv(Len(data) * 10, 100) + 1],
                                    data[TruncDiv(Len(data) * 95, 100) + 1])
         IN  Sorted(SortAsc(IF h.isFull THEN h.buffer ELSE SubSeq(h.buffer, 1, h.head)))

\* The best threshold alone, as processSample uses it.
SuggestThreshold(h) == SuggestThresholdResult(h).threshold

\* An optimizer nothing has been pushed to, and no SuggestThreshold call yet:
\* suggested is what the last call returned, seen the history it was made on.
HistoryAtRest ==
    [h         |-> NewHistoryOptimizer(30, 100),
     suggested |-> [threshold |-> 0, peak |-> 0, noise |-> 0],
     seen      |-> <<>>,
     calls     |-> 0]

\* ===================================================== cw.ExperimentalDecoder
\* The number of samples between two threshold updates.
TuneEvery == 96000

\* The decoder with its trigger, symbol buffer and beam, and the texts its
\* OnDecoded callback has received.
NewExperimentalDecoder(sampleRate, lm) ==
    [e    |-> [samplesProcessed |-> 0, processedCnt |-> 0,
               historyOpt |-> NewHistoryOptimizer(30, sampleRate), closed |-> FALSE],
     st   |-> NewSchmittTrigger(sampleRate, TruncDiv(EnvScale * 5, 10),
                                TruncDiv(EnvScale * 4, 10), DebounceMs),
     d    |-> NewCWDecoder(ExperimentalConfig),
     bd   |-> NewBeamDecoder(lm),
     sink |-> <<>>]

\* emit: the callback receives the text.
Emit(texts, text) == Append(texts, text)

\* processSample, the threshold update every TuneEvery samples.
Tuned(x, t) ==
    IF x.processedCnt > TuneEvery
    THEN LET With(bestThresh) ==
                 [e  |-> [x EXCEPT !.processedCnt = 0],
                  st |-> SetThresholdsResult(t, bestThresh, TruncDiv(bestThresh * 8, 10))]
         IN  With(SuggestThreshold(x.historyOpt))
    ELSE [e |-> x, st |-> t]

\* processSample, a transition of the trigger: it is fed to the symbol buffer
\* and a non-empty result is emitted.
Transitioned(w, tr) ==
    {[w EXCEPT !.d = o.d, !.bd = o.bd,
               !.sink = IF o.text # <<>> THEN Emit(@, o.text) ELSE @]
     : o \in FeedNewResults(w.d, w.bd, tr.DurationMs * DurScale,
                            IF tr.FinishedState THEN StateOn ELSE StateOff)}

\* processSample on the envelope that the demodulator returns for the sample
\* (the demodulator itself is not part of this model: rawEnvelope is an input).
ProcessSampleResults(w, rawEnvelope) ==
    LET Fed(w1, res) ==
            IF res.ret.nil THEN {[w1 EXCEPT !.st = res.st]}
            ELSE Transitioned([w1 EXCEPT !.st = res.st], res.ret)
        Updated(tuned) ==
            Fed([w EXCEPT !.e = tuned.e], FeedResult(tuned.st, rawEnvelope))
    IN  Updated(Tuned([w.e EXCEPT !.samplesProcessed = @ + 1,
                                  !.processedCnt = @ + 1,
                                  !.historyOpt = Push(@, rawEnvelope)],
                      w.st))

\* ProcessAudioChunk: processSample on each sample of the chunk, in order.
RECURSIVE ProcessAudioChunkResults(_, _)
ProcessAudioChunkResults(w, samples) ==
    IF samples = <<>> THEN {w}
    ELSE UNION {ProcessAudioChunkResults(w1, Tail(samples))
                : w1 \in ProcessSampleResults(w, Head(samples))}

\* Stop: whatever CheckTimeout returns is emitted, and the debugger is closed.
StopResults(w) ==
    {[w EXCEPT !.d = o.d, !.bd = o.bd, !.sink = Emit(@, o.text), !.e.closed = TRUE]
     : o \in CheckTimeoutResults(w.d, w.bd)}

\* ------------------------------------------------------------ Filters.AFC
\* Frequencies are in units of 1/FreqScale Hz, phases in 1/PhaseScale rad.
FreqScale == 1000
PhaseScale == 1000
TwoPi == 6283

\* AFC.updatePhaseInc: 2 * pi * freq / sampleRate.
PhaseInc(freq, sampleRate) ==
    (TwoPi * (freq \div FreqScale) + (TwoPi * (freq % FreqScale)) \div FreqScale)
        \div sampleRate

\* The envelope gate 0.005, the gain 0.0002, the dead band of 2 Hz, the count
\* of consecutive strong samples and the +-100 Hz clamp of AFC.Update.
AfcGate == 50
AfcGainNum == 2
AfcGainDen == 10000
AfcDeadband == 2
AfcSettle == 5
AfcRange == 100

NewAFC(sampleRate, targetFreq) ==
    [sampleRate        |-> sampleRate,
     signalConsecutive |-> 0,
     CurrentFreq       |-> targetFreq,
     targetFreq        |-> targetFreq,
     phaseInc          |-> PhaseInc(targetFreq, sampleRate)]

\* The correction of AFC.Update without its clamp.
ClampFreqOff(freq, target) == freq

ClampFreq(freq, target) ==
    IF freq > target + AfcRange * FreqScale THEN target + AfcRange * FreqScale
    ELSE IF freq < target - AfcRange * FreqScale THEN target - AfcRange * FreqScale
    ELSE freq

\* AFC.Update for one sample; freqError is the frequency error the phase
\* detector measures on it (phaseDelta * sampleRate / 2 pi).  The phase
\* increment it returns is the phaseInc field of the result.
AFCUpdate(a, envelope, freqError) ==
    IF envelope > AfcGate
    THEN LET corrected ==
                 IF a.signalConsecutive > AfcSettle /\ Abs(freqError) > AfcDeadband * FreqScale
                 THEN LET With(f) == [a EXCEPT !.CurrentFreq = f,
                                               !.phaseInc = PhaseInc(f, a.sampleRate)]
                      IN  With(ClampFreq(a.CurrentFreq + TruncDiv(freqError * AfcGainNum, AfcGainDen),
                                         a.targetFreq))
                 ELSE a
         IN  [corrected EXCEPT !.signalConsecutive = @ + 1]
    ELSE [a EXCEPT !.signalConsecutive = 0]

\* AFC.UpdateTargetFreq past its guard, as the two groups of writes it makes:
\* the frequencies first, then the phase increment and the counter.
RetargetFreqs(a, freq) == [a EXCEPT !.targetFreq = freq, !.CurrentFreq = freq]
RetargetPhase(a) ==
    [a EXCEPT !.phaseInc = PhaseInc(a.CurrentFreq, a.sampleRate), !.signalConsecutive = 0]

\* The guard of AFC.UpdateTargetFreq: it returns when freq is less than 5 Hz
\* from the AFC's targetFreq.
AfcAccepts(a, freq) == ~(Abs(freq - a.targetFreq) < 5 * FreqScale)

AFCUpdateTargetFreq(a, freq) ==
    IF AfcAccepts(a, freq) THEN RetargetPhase(RetargetFreqs(a, freq)) ELSE a

\* ----------------------------------------------------------- SDRDemodulator
\* The mixer and the low-pass filters are not modelled: the envelope Process
\* returns is an input of the model.
NewSDRDemodulator(sampleRate, targetFreq, afcEnabled) ==
    [sampleRate |-> sampleRate,
     targetFreq |-> targetFreq,
     afcEnabled |-> afcEnabled,
     afc        |-> NewAFC(sampleRate, targetFreq),
     phase      |-> 0]

\* The guard of SetTargetFreq: more than 5 Hz from the demodulator's targetFreq.
PassesHysteresis(s, freq) == Abs(freq - s.targetFreq) > 5 * FreqScale

SetTargetFreqResult(s, freq) ==
    IF PassesHysteresis(s, freq) THEN [s EXCEPT !.afc = AFCUpdateTargetFreq(@, freq)]
    ELSE s

updatePhase(phase, phaseInc) ==
    IF phase + phaseInc > TwoPi THEN phase + phaseInc - TwoPi ELSE phase + phaseInc

\* SDRDemodulator.Process: the local oscillator's phase advances by the AFC's
\* increment, or by the fixed one of targetFreq when the AFC is switched off.
ProcessResult(s, envelope, freqError) ==
    IF s.afcEnabled
    THEN LET With(a) == [s EXCEPT !.afc = a, !.phase = updatePhase(@, a.phaseInc)]
         IN  With(AFCUpdate(s.afc, envelope, freqError))
    ELSE [s EXCEPT !.phase = updatePhase(@, PhaseInc(s.targetFreq, s.sampleRate))]

\* ---------------------------------------------------------- SpectrumMonitor
\* The capacity of audioInChan, and the ring buffer's length for the FFT size
\* 4096 of DefaultConfig: fftSize + 3 * (fftSize - fftSize / 2).
ChanCapacity == 100
RingLen == 10240

\* pc is where the run goroutine stands: not started ("idle"), in its select,
\* inside the OnFrequencyUpdate callback between the AFC's two groups of
\* writes ("retune"), or returned ("done").  cancelled is ctx.Done being
\* closed; ticks counts the ticker's firings (history).
NewSpectrumMonitor(enabled) ==
    [enabled      |-> enabled,
     cancelled    |-> FALSE,
     audioInChan  |-> <<>>,
     ringPos      |-> 0,
     smoothedFreq |-> 700 * FreqScale,
     hasLock      |-> FALSE,
     pc           |-> "idle",
     ticks        |-> 0]

\* PushAudioData when the channel is full: the default branch of the select
\* replaced by one that makes room for the new chunk.
PushDropsOldest(m, samples) ==
    IF ~m.enabled THEN m
    ELSE IF Len(m.audioInChan) < ChanCapacity
         THEN [m EXCEPT !.audioInChan = Append(@, samples)]
         ELSE [m EXCEPT !.audioInChan = Append(Tail(@), samples)]

\* PushAudioData: the send of the select, or its default branch.
PushAudioDataResult(m, samples) ==
    IF ~m.enabled THEN m
    ELSE IF Len(m.audioInChan) < ChanCapacity
         THEN [m EXCEPT !.audioInChan = Append(@, samples)]
         ELSE m

\* The receive branch of run: the chunk is copied into the ring buffer.
ReceiveResult(m) ==
    [m EXCEPT !.audioInChan = Tail(@),
              !.ringPos = (@ + Head(m.audioInChan).len) % RingLen]

\* The ticker branch of run up to the callback.  A measurement is what
\* calculateWelch and the squelch make of the ring buffer: whether the peak
\* passes the squelch, its frequency, and the learning rate of its SNR.
TickResult(m, meas) ==
    IF ~meas.signal THEN [m EXCEPT !.ticks = @ + 1]
    ELSE [m EXCEPT !.ticks = @ + 1,
                   !.hasLock = TRUE,
                   !.smoothedFreq =
                       IF ~m.hasLock THEN meas.freq
                       ELSE @ + TruncDiv((meas.freq - @) * meas.alpha, AlphaScale)]

\* ------------------------------------------------------------------ CWSystem
\* chunkSize of runReplayLoop and fftSize of runCalibration.
ChunkSize == 1024
CalibrationSize == 4096

\* file is what is left of the replayed recording: full chunks of chunkSize
\* samples, then the envelopes of the samples of a short last chunk.
NewCWSystem(file) ==
    [isCalibrated   |-> FALSE,
     calibrationLen |-> 0,
     file           |-> file,
     exited         |-> FALSE]

NoFile == [full |-> 0, tail |-> <<>>]

\* The audio worker's position: samples left in the chunk it is processing.
IdleWorker == [left |-> 0]

\* History: who last wrote the SDR/AFC frequency state and whether a chunk
\* was being processed; the SetTargetFreq calls and the number of samples
\* demodulated; the chunks pushed, accepted, dropped and received.
NoLog ==
    [writer   |-> "none",
     midChunk |-> FALSE,
     calls    |-> <<>>,
     samples  |-> 0,
     pushed   |-> 0,
     accepted |-> <<>>,
     dropped  |-> <<>>,
     received |-> <<>>]

\* ------------------------------------------ BeamDecoder.LanguageModel, loading
\* The bigram file as os.ReadFile and json.Unmarshal see it: whether it can be
\* read, whether its content is syntactically valid JSON, and the leaves of its
\* object of objects in document order.  A leaf is a number, or a value of
\* another JSON type (isNumber FALSE).
NoBigramFile == [readable |-> FALSE, valid |-> FALSE, leaves |-> <<>>]

\* json.Unmarshal storing one leaf into LogProbs: a leaf of the wrong type is
\* reported, and its key is stored with the zero value.
StoreLeaf(table, leaf) ==
    [k \in DOMAIN table \cup {<<leaf.prev, leaf.next>>} |->
        IF k = <<leaf.prev, leaf.next>>
        THEN (IF leaf.isNumber THEN leaf.val ELSE 0)
        ELSE table[k]]

RECURSIVE StoreLeaves(_, _)
StoreLeaves(table, leaves) ==
    IF leaves = <<>> THEN table
    ELSE StoreLeaves(StoreLeaf(table, Head(leaves)), Tail(leaves))

\* json.Unmarshal(content, &lm.LogProbs): the table afterwards and whether an
\* error is returned.  A syntax error is found before anything is stored.
Unmarshal(table, content) ==
    IF ~content.valid THEN [table |-> table, err |-> TRUE]
    ELSE [table |-> StoreLeaves(table, content.leaves),
          err   |-> \E i \in 1..Len(content.leaves) : ~content.leaves[i].isNumber]

\* NewLanguageModel with loadDummyData: a failed read panics; the error of
\* Unmarshal is not looked at.
NewLanguageModelResult(content) ==
    IF ~content.readable
    THEN [state |-> "panicked", table |-> EmptyLM, parseErr |-> FALSE]
    ELSE [state |-> "returned",
          table |-> Unmarshal(EmptyLM, content).table,
          parseErr |-> Unmarshal(EmptyLM, content).err]

\* Before the load: the file on disk and no model yet.
Unloaded(content) ==
    [content |-> content, state |-> "start", table |-> EmptyLM, parseErr |-> FALSE]

\* ------------------------------------------------------------------ CIVClient
\* Bytes are integers 0..255; the frame markers and addresses of civ.go.
CIV_PREAMBLE == 254
CIV_END == 253
CIV_ADDR_7300 == 148
CIV_ADDR_PC == 224

\* The frame SendCommand writes.
CommandFrame(cmd, subCmd) ==
    <<CIV_PREAMBLE, CIV_PREAMBLE, CIV_ADDR_7300, CIV_ADDR_PC, cmd>> \o subCmd \o <<CIV_END>>

\* bytes.Index and bytes.IndexByte: the 0-based index of the first match, -1
\* when there is none.
Index(data, sep) ==
    LET hits == {i \in 0..(Len(data) - Len(sep)) : SubSeq(data, i + 1, i + Len(sep)) = sep}
    IN  IF hits = {} THEN -1 ELSE CHOOSE i \in hits : \A j \in hits : i <= j

IndexByte(data, b) == Index(data, <<b>>)

\* bcdToDecimal, in byte arithmetic.
bcdToDecimal(b) == ((((b \div 16) * 10) % 256) + (b % 16)) % 256

\* What conn.Read hands back: the bytes read and the error ("", "EOF", or
\* "other" for a timeout reported as an error).
readResponse(open, read, expectedCmd) ==
    IF ~open THEN [data |-> <<>>, err |-> "connection not open"]
    ELSE IF read.err = "EOF" THEN [data |-> <<>>, err |-> "connection closed"]
    ELSE IF Len(read.data) = 0 THEN [data |-> <<>>, err |-> "timeout or no data"]
    ELSE LET idx == Index(read.data,
                          <<CIV_PREAMBLE, CIV_PREAMBLE, CIV_ADDR_PC, CIV_ADDR_7300, expectedCmd>>)
         IN  IF idx = -1 THEN [data |-> <<>>, err |-> "response header not found"]
             ELSE LET WithFrame(frame) ==
                          LET WithEnd(endIdx) ==
                                  IF endIdx = -1
                                  THEN [data |-> <<>>, err |-> "frame end not found"]
                                  ELSE IF endIdx <= 5 THEN [data |-> <<>>, err |-> ""]
                                  ELSE [data |-> SubSeq(frame, 6, endIdx), err |-> ""]
                          IN  WithEnd(IndexByte(frame, CIV_END))
                  IN  WithFrame(SubSeq(read.data, idx + 1, Len(read.data)))

\* The frequency of the first five data bytes, least-significant pair first.
RECURSIVE BcdFrequency(_, _, _)
BcdFrequency(data, i, multiplier) ==
    IF i > 5 \/ i > Len(data) THEN 0
    ELSE bcdToDecimal(data[i]) * multiplier + BcdFrequency(data, i + 1, multiplier * 100)

\* ReadFrequency: the command is written (writeErr is the error of conn.Write),
\* the response read and decoded.
ReadFrequencyResult(open, writeErr, read) ==
    IF ~open THEN [freq |-> 0, err |-> "connection not open"]
    ELSE IF writeErr THEN [freq |-> 0, err |-> "write failed"]
    ELSE LET With(resp) ==
                 IF resp.err # "" THEN [freq |-> 0, err |-> resp.err]
                 ELSE IF Len(resp.data) < 5
                 THEN [freq |-> 0, err |-> "invalid frequency data length"]
                 ELSE [freq |-> BcdFrequency(resp.data, 1, 1), err |-> ""]
         IN  With(readResponse(open, read, 3))

\* The client with its connection, the frames written to the port so far, and
\* the last ReadFrequency call: what the port delivered and what was returned.
NewCIVClient ==
    [open    |-> FALSE,
     written |-> <<>>,
     read    |-> [data |-> <<>>, err |-> ""],
     result  |-> [freq |-> 0, err |-> ""],
     calls   |-> 0]

\* -------------------------------------------------------------- PitchDetector
\* Levels are in 1/EnvScale, frequencies in 1/FreqScale Hz, SmoothingAlpha in
\* 1/AlphaScale.  The configuration of TestPitchDetector_InterferenceProtection.
PitchTestConfig ==
    [FFTSize        |-> 2048,
     SmoothingAlpha |-> TruncDiv(AlphaScale, 10),
     MaxJumpHz      |-> 50 * FreqScale,
     NoiseThreshold |-> TruncDiv(EnvScale, 10)]

\* ret is what the last Detect returned, input what it was called with, and
\* calls the number of Detect calls (history).
NewPitchDetector(cfg) ==
    [config   |-> cfg,
     lastFreq |-> 0,
     hasLock  |-> FALSE,
     ret      |-> [freq |-> 0, found |-> FALSE],
     input    |-> [len |-> 0, peakFreq |-> 0, peakMag |-> 0],
     calls    |-> 0]

\* updateFrequencyState with the jump protection left out.
updateFrequencyStateNoProtection(p, detectedFreq, magnitude) ==
    IF magnitude < p.config.NoiseThreshold
    THEN [p EXCEPT !.ret = [freq |-> p.lastFreq, found |-> FALSE]]
    ELSE IF p.hasLock
    THEN LET With(f) == [p EXCEPT !.lastFreq = f, !.ret = [freq |-> f, found |-> TRUE]]
         IN  With(p.lastFreq + TruncDiv((detectedFreq - p.lastFreq) * p.config.SmoothingAlpha,
                                        AlphaScale))
    ELSE [p EXCEPT !.lastFreq = detectedFreq, !.hasLock = TRUE,
                   !.ret = [freq |-> detectedFreq, found |-> TRUE]]

updateFrequencyState(p, detectedFreq, magnitude) ==
    IF magnitude < p.config.NoiseThreshold
    THEN [p EXCEPT !.ret = [freq |-> p.lastFreq, found |-> FALSE]]
    ELSE IF p.hasLock
    THEN IF Abs(detectedFreq - p.lastFreq) > p.config.MaxJumpHz
         THEN [p EXCEPT !.ret = [freq |-> p.lastFreq, found |-> TRUE]]
         ELSE LET With(f) == [p EXCEPT !.lastFreq = f, !.ret = [freq |-> f, found |-> TRUE]]
              IN  With(p.lastFreq
                       + TruncDiv((detectedFreq - p.lastFreq) * p.config.SmoothingAlpha,
                                  AlphaScale))
    ELSE [p EXCEPT !.lastFreq = detectedFreq, !.hasLock = TRUE,
                   !.ret = [freq |-> detectedFreq, found |-> TRUE]]

\* Detect.  The FFT and the peak search are not modelled: an input is the
\* number of samples handed in and the peak findPeak finds in them.
DetectResult(p, in) ==
    LET counted == [p EXCEPT !.input = in, !.calls = @ + 1]
    IN  IF in.len < p.config.FFTSize
        THEN [counted EXCEPT !.ret = [freq |-> p.lastFreq, found |-> p.hasLock]]
        ELSE updateFrequencyState(counted, in.peakFreq, in.peakMag)

\* PitchDetector.Reset.
ResetResult(p) == [p EXCEPT !.lastFreq = 0, !.hasLock = FALSE]

\* The loader, the radio client and the pitch detector before any call.
DevicesAtRest ==
    /\ load = Unloaded(NoBigramFile)
    /\ civ = NewCIVClient
    /\ pd = NewPitchDetector(PitchTestConfig)
    /\ opt = HistoryAtRest

\* The demodulator, monitor and system as CWSystem.Start builds them, before
\* any audio: the state of these parts wherever they take no step.
SystemAtRest ==
    /\ sdr = NewSDRDemodulator(100, 703 * FreqScale, TRUE)
    /\ mon = NewSpectrumMonitor(TRUE)
    /\ sys = NewCWSystem(NoFile)
    /\ aud = IdleWorker
    /\ log = NoLog
    /\ DevicesAtRest

\* ------------------------------------------------------------ the actions
InitTrigger ==
    /\ \E sr \in SampleRates : \E th \in ThresholdPairs :
           st = NewSchmittTrigger(sr, th[1], th[2], DebounceMs)
    /\ ret = Nil
    /\ outs = NoTransitions
    /\ run = NoRun
    /\ ended = NoRun
    /\ d = NewCWDecoder(ExperimentalConfig)
    /\ bd = NewBeamDecoder(EmptyLM)
    /\ hist = <<>>
    /\ exp = NewExperimentalDecoder(100, EmptyLM).e
    /\ sink = <<>>
    /\ SystemAtRest

Feed(envelope) ==
    /\ st.totalSamples < MaxSamples
    /\ LET res == FeedResult(st, envelope)
           r1  == RunAfter(st, run, envelope, res)
       IN  /\ st' = res.st
           /\ ret' = res.ret
           /\ run' = r1
           /\ ended' = IF run.len > 0 /\ ~Across(st, run.from, envelope)
                       THEN run ELSE NoRun
           /\ outs' = Returned(outs, res.ret, st.sampleRate)
    /\ UNCHANGED <<decoderVars, pipelineVars, systemVars, deviceVars>>

SetThresholds(high, low) ==
    /\ st' = SetThresholdsResult(st, high, low)
    /\ UNCHANGED <<ret, run, ended, outs>>
    /\ UNCHANGED <<decoderVars, pipelineVars, systemVars, deviceVars>>

NextTrigger ==
    \/ \E e \in Envelopes : Feed(e)
    \/ \E th \in ThresholdPairs : SetThresholds(th[1], th[2])

SpecTrigger == InitTrigger /\ [][NextTrigger]_vars

\* A weak envelope: a noise floor of 0.001 with bursts of 0.0045, both below
\* minRange, so that the tracked dynamic range never reaches minRange.
WeakEnvelopes == {10, 45}

\* The history of that noise floor, and the thresholds processSample sets
\* from it: SuggestThreshold and 0.8 times it.
NoiseHistory ==
    [NewHistoryOptimizer(30, 100) EXCEPT !.buffer = <<10, 10, 10, 10>>, !.head = 4]
TunedPairs ==
    {<<SuggestThreshold(NoiseHistory), TruncDiv(SuggestThreshold(NoiseHistory) * 8, 10)>>}

InitSquelch ==
    /\ \E sr \in SampleRates :
           st = NewSchmittTrigger(sr, TruncDiv(EnvScale * 5, 10),
                                  TruncDiv(EnvScale * 4, 10), DebounceMs)
    /\ ret = Nil
    /\ outs = NoTransitions
    /\ run = NoRun
    /\ ended = NoRun
    /\ d = NewCWDecoder(ExperimentalConfig)
    /\ bd = NewBeamDecoder(EmptyLM)
    /\ hist = <<>>
    /\ exp = NewExperimentalDecoder(100, EmptyLM).e
    /\ sink = <<>>
    /\ SystemAtRest

NextSquelch ==
    \/ \E e \in WeakEnvelopes : Feed(e)
    \/ \E th \in TunedPairs : SetThresholds(th[1], th[2])

SpecSquelch == InitSquelch /\ [][NextSquelch]_vars

\* Event durations fed to the symbol buffer, in ms: a glitch, a dit, a dah
\* (2.5 unit times at 20 WPM, a character gap at 30 WPM) and a word gap.
Durations == {10, 60, 150, 400}

\* The decoders the model starts from: the one of the unit tests, and the one
\* of NewExperimentalDecoder with a loaded bigram table.
Setups == {[cfg |-> TestConfig, lm |-> EmptyLM],
           [cfg |-> ExperimentalConfig, lm |-> SmallLM]}

InitDecoder ==
    /\ st = NewSchmittTrigger(100, 5000, 4000, DebounceMs)
    /\ ret = Nil
    /\ outs = NoTransitions
    /\ run = NoRun
    /\ ended = NoRun
    /\ \E s \in Setups : /\ d = NewCWDecoder(s.cfg)
                         /\ bd = NewBeamDecoder(s.lm)
    /\ hist = <<>>
    /\ exp = NewExperimentalDecoder(100, EmptyLM).e
    /\ sink = <<>>
    /\ SystemAtRest

FeedNew(durationMs, state) ==
    /\ Len(hist) < MaxEvents
    /\ \E o \in FeedNewResults(d, bd, durationMs, state) :
           /\ d' = o.d
           /\ bd' = o.bd
           /\ hist' = Append(hist, o.call)
    /\ UNCHANGED <<triggerVars, pipelineVars, systemVars, deviceVars>>

CheckTimeout ==
    /\ Len(hist) < MaxEvents
    /\ \E o \in CheckTimeoutResults(d, bd) :
           /\ d' = o.d
           /\ bd' = o.bd
           /\ hist' = Append(hist, o.call)
    /\ UNCHANGED <<triggerVars, pipelineVars, systemVars, deviceVars>>

NextDecoder ==
    \/ \E ms \in Durations : \E state \in {StateOn, StateOff} :
           FeedNew(ms * DurScale, state)
    \/ CheckTimeout

SpecDecoder == InitDecoder /\ [][NextDecoder]_vars

\* A decoder configured for a speed above 120 WPM (InitialWPM is the caller's).
HighSpeedConfig ==
    [InitialWPM |-> 150, GlitchThresholdMs |-> 20 * DurScale, UpdateAlpha |-> 2500]

InitHighSpeed ==
    /\ st = NewSchmittTrigger(100, 5000, 4000, DebounceMs)
    /\ ret = Nil
    /\ outs = NoTransitions
    /\ run = NoRun
    /\ ended = NoRun
    /\ d = NewCWDecoder(HighSpeedConfig)
    /\ \E lm \in {EmptyLM, SmallLM} : bd = NewBeamDecoder(lm)
    /\ hist = <<>>
    /\ exp = NewExperimentalDecoder(100, EmptyLM).e
    /\ sink = <<>>
    /\ SystemAtRest

SpecHighSpeed == InitHighSpeed /\ [][NextDecoder]_vars

\* Sample rates the pipeline is built for (debounce counts 0 and 1), the
\* envelopes of silence and of a keyed carrier, and the lengths of the chunks.
PipelineRates == {50, 100}
PipelineEnvelopes == {1000, 9000}
ChunkLens == {1, 2}

World == [e |-> exp, st |-> st, d |-> d, bd |-> bd, sink |-> sink]

InitExp ==
    /\ \E sr \in PipelineRates : \E lm \in {EmptyLM, SmallLM} :
           LET w == NewExperimentalDecoder(sr, lm)
           IN  /\ exp = w.e
               /\ st = w.st
               /\ d = w.d
               /\ bd = w.bd
               /\ sink = w.sink
    /\ ret = Nil
    /\ outs = NoTransitions
    /\ run = NoRun
    /\ ended = NoRun
    /\ hist = <<>>
    /\ SystemAtRest

ProcessAudioChunk(samples) ==
    /\ ~exp.closed
    /\ exp.samplesProcessed + Len(samples) <= MaxPipelineSamples
    /\ \E w \in ProcessAudioChunkResults(World, samples) :
           /\ exp' = w.e
           /\ st' = w.st
           /\ d' = w.d
           /\ bd' = w.bd
           /\ sink' = w.sink
    /\ UNCHANGED <<ret, run, ended, outs, hist, systemVars, deviceVars>>

Stop ==
    /\ ~exp.closed
    /\ \E w \in StopResults(World) :
           /\ exp' = w.e
           /\ d' = w.d
           /\ bd' = w.bd
           /\ sink' = w.sink
    /\ UNCHANGED <<st, ret, run, ended, outs, hist, systemVars, deviceVars>>

NextExp ==
    \/ \E n \in ChunkLens : \E samples \in [1..n -> PipelineEnvelopes] : ProcessAudioChunk(samples)
    \/ Stop

SpecExp == InitExp /\ [][NextExp]_vars

\* ---------------------------------------------------- the demodulator alone
MaxCalls == 2
MaxSdrSamples == 7

\* Frequencies handed to SetTargetFreq, the envelopes of noise and of a
\* carrier, and the frequency errors the AFC's phase detector measures (inside
\* and outside its dead band).
TuneFreqs == {702 * FreqScale, 706 * FreqScale, 711 * FreqScale, 800 * FreqScale}
TuneEnvelopes == {10, 9000}
FreqErrors == {1 * FreqScale, 50 * FreqScale}

\* The frequency error is measured only on a strong sample that follows more
\* than five strong ones.
ErrorsSeen(s, envelope) ==
    IF s.afcEnabled /\ envelope > AfcGate /\ s.afc.signalConsecutive > AfcSettle
    THEN FreqErrors ELSE {0}

InitSDR ==
    /\ st = NewSchmittTrigger(100, 5000, 4000, DebounceMs)
    /\ ret = Nil
    /\ outs = NoTransitions
    /\ run = NoRun
    /\ ended = NoRun
    /\ d = NewCWDecoder(ExperimentalConfig)
    /\ bd = NewBeamDecoder(EmptyLM)
    /\ hist = <<>>
    /\ exp = NewExperimentalDecoder(100, EmptyLM).e
    /\ sink = <<>>
    /\ \E afcEnabled \in BOOLEAN : sdr = NewSDRDemodulator(100, 700 * FreqScale, afcEnabled)
    /\ mon = NewSpectrumMonitor(TRUE)
    /\ sys = NewCWSystem(NoFile)
    /\ aud = IdleWorker
    /\ log = NoLog
    /\ DevicesAtRest

SetTargetFreq(freq) ==
    /\ Len(log.calls) < MaxCalls
    /\ sdr' = SetTargetFreqResult(sdr, freq)
    /\ log' = [log EXCEPT !.calls = Append(@, [freq |-> freq, before |-> sdr, after |-> sdr'])]
    /\ UNCHANGED <<triggerVars, decoderVars, pipelineVars, mon, sys, aud, deviceVars>>

Process(envelope, freqError) ==
    /\ log.samples < MaxSdrSamples
    /\ sdr' = ProcessResult(sdr, envelope, freqError)
    /\ log' = [log EXCEPT !.samples = @ + 1]
    /\ UNCHANGED <<triggerVars, decoderVars, pipelineVars, mon, sys, aud, deviceVars>>

NextSDR ==
    \/ \E freq \in TuneFreqs : SetTargetFreq(freq)
    \/ \E envelope \in TuneEnvelopes : \E freqError \in ErrorsSeen(sdr, envelope) :
           Process(envelope, freqError)

SpecSDR == InitSDR /\ [][NextSDR]_vars

\* ------------------------------------------------------------ the AFC alone
MaxAfcSamples == 28
MaxRetargets == 2

\* An AFC at the sample rate of CWSystem.  The frequency errors are the
\* largest the phase detector can report (half the sample rate, either way)
\* and one inside the dead band; the targets are one less than 5 Hz from the
\* first target and two further away.
AfcRate == 48000
AfcErrors == {-24000 * FreqScale, 1 * FreqScale, 24000 * FreqScale}
AfcTargets == {702 * FreqScale, 650 * FreqScale, 760 * FreqScale}

InitAFC ==
    /\ st = NewSchmittTrigger(100, 5000, 4000, DebounceMs)
    /\ ret = Nil
    /\ outs = NoTransitions
    /\ run = NoRun
    /\ ended = NoRun
    /\ d = NewCWDecoder(ExperimentalConfig)
    /\ bd = NewBeamDecoder(EmptyLM)
    /\ hist = <<>>
    /\ exp = NewExperimentalDecoder(100, EmptyLM).e
    /\ sink = <<>>
    /\ sdr = NewSDRDemodulator(AfcRate, 700 * FreqScale, TRUE)
    /\ mon = NewSpectrumMonitor(TRUE)
    /\ sys = NewCWSystem(NoFile)
    /\ aud = IdleWorker
    /\ log = NoLog
    /\ DevicesAtRest

\* AFC.Update and AFC.UpdateTargetFreq called on the demodulator's AFC.
Update(envelope, freqError) ==
    /\ log.samples < MaxAfcSamples
    /\ sdr' = [sdr EXCEPT !.afc = AFCUpdate(@, envelope, freqError)]
    /\ log' = [log EXCEPT !.samples = @ + 1]
    /\ UNCHANGED <<triggerVars, decoderVars, pipelineVars, mon, sys, aud, deviceVars>>

UpdateTargetFreq(freq) ==
    /\ Len(log.calls) < MaxRetargets
    /\ sdr' = [sdr EXCEPT !.afc = AFCUpdateTargetFreq(@, freq)]
    /\ log' = [log EXCEPT !.calls = Append(@, [freq |-> freq, moved |-> AfcAccepts(sdr.afc, freq)])]
    /\ UNCHANGED <<triggerVars, decoderVars, pipelineVars, mon, sys, aud, deviceVars>>

NextAFC ==
    \/ \E envelope \in TuneEnvelopes :
           \E freqError \in (IF envelope > AfcGate /\ sdr.afc.signalConsecutive > AfcSettle
                              THEN AfcErrors ELSE {0}) :
               Update(envelope, freqError)
    \/ \E freq \in AfcTargets : UpdateTargetFreq(freq)

SpecAFC == InitAFC /\ [][NextAFC]_vars

\* ------------------------------------------- the audio worker and the monitor
MaxTuneSamples == 7
MaxTicks == 1

\* The lengths of the chunks, and what a tick of the monitor can measure.
TuneChunkLens == {3, 4}
Measurements ==
    {[signal |-> FALSE, freq |-> 0, alpha |-> 0],
     [signal |-> TRUE, freq |-> 650 * FreqScale, alpha |-> 250],
     [signal |-> TRUE, freq |-> 800 * FreqScale, alpha |-> 250]}

FreqState(s) ==
    <<s.afc.targetFreq, s.afc.CurrentFreq, s.afc.phaseInc, s.afc.signalConsecutive>>

\* The history of a write to the frequency state by the given goroutine.
Wrote(who, before, after) ==
    IF FreqState(after) = FreqState(before) THEN log
    ELSE [log EXCEPT !.writer = who, !.midChunk = aud.left > 0]

InitTune ==
    /\ LET w == NewExperimentalDecoder(100, EmptyLM)
       IN  /\ exp = w.e
           /\ st = w.st
           /\ d = w.d
           /\ bd = w.bd
           /\ sink = w.sink
    /\ ret = Nil
    /\ outs = NoTransitions
    /\ run = NoRun
    /\ ended = NoRun
    /\ hist = <<>>
    /\ \E afcEnabled \in BOOLEAN : sdr = NewSDRDemodulator(100, 700 * FreqScale, afcEnabled)
    /\ mon = NewSpectrumMonitor(TRUE)
    /\ sys = NewCWSystem(NoFile)
    /\ aud = IdleWorker
    /\ log = NoLog
    /\ DevicesAtRest

\* The audio worker takes up a chunk of n samples.
AudioChunk(n) ==
    /\ aud.left = 0
    /\ exp.samplesProcessed + n <= MaxTuneSamples
    /\ aud' = [left |-> n]
    /\ UNCHANGED <<triggerVars, decoderVars, pipelineVars, sdr, mon, sys, log, deviceVars>>

\* processSample on the next sample of the chunk: the demodulator, then the
\* rest of the pipeline on the envelope.
AudioSample(envelope, freqError) ==
    /\ aud.left > 0
    /\ sdr' = ProcessResult(sdr, envelope, freqError)
    /\ \E w \in ProcessSampleResults(World, envelope) :
           /\ exp' = w.e
           /\ st' = w.st
           /\ d' = w.d
           /\ bd' = w.bd
           /\ sink' = w.sink
    /\ aud' = [left |-> aud.left - 1]
    /\ log' = Wrote("audio", sdr, sdr')
    /\ UNCHANGED <<ret, run, ended, outs, hist, mon, sys, deviceVars>>

\* SpectrumMonitor.Start: go sm.run() when the monitor is enabled.
MonitorStart ==
    /\ mon.pc = "idle"
    /\ mon.enabled
    /\ mon' = [mon EXCEPT !.pc = "select"]
    /\ UNCHANGED <<triggerVars, decoderVars, pipelineVars, sdr, sys, aud, log, deviceVars>>

\* SpectrumMonitor.Stop: the context is cancelled.
MonitorStop ==
    /\ ~mon.cancelled
    /\ mon' = [mon EXCEPT !.cancelled = TRUE]
    /\ UNCHANGED <<triggerVars, decoderVars, pipelineVars, sdr, sys, aud, log, deviceVars>>

\* The ctx.Done branch of run.  The select picks any ready branch, so the
\* other branches stay possible until this one is taken.
RunDone ==
    /\ mon.pc = "select"
    /\ mon.cancelled
    /\ mon' = [mon EXCEPT !.pc = "done"]
    /\ UNCHANGED <<triggerVars, decoderVars, pipelineVars, sdr, sys, aud, log, deviceVars>>

\* The ticker branch of run.  OnFrequencyUpdate is handleFrequencyUpdate, so
\* the run goroutine itself goes through UpdateTargetFreq, SetTargetFreq and
\* AFC.UpdateTargetFreq; past both guards it writes the AFC's frequencies in
\* this step and the phase increment and the counter in RunRetune, and the
\* audio worker may run between the two.
RunTick(meas) ==
    /\ mon.pc = "select"
    /\ mon.ticks < MaxTicks
    /\ LET m1 == TickResult(mon, meas)
           retunes == /\ meas.signal
                      /\ PassesHysteresis(sdr, m1.smoothedFreq)
                      /\ AfcAccepts(sdr.afc, m1.smoothedFreq)
       IN  /\ mon' = [m1 EXCEPT !.pc = IF retunes THEN "retune" ELSE "select"]
           /\ sdr' = IF retunes THEN [sdr EXCEPT !.afc = RetargetFreqs(@, m1.smoothedFreq)]
                      ELSE sdr
    /\ log' = Wrote("monitor", sdr, sdr')
    /\ UNCHANGED <<triggerVars, decoderVars, pipelineVars, sys, aud, deviceVars>>

RunRetune ==
    /\ mon.pc = "retune"
    /\ mon' = [mon EXCEPT !.pc = "select"]
    /\ sdr' = [sdr EXCEPT !.afc = RetargetPhase(@)]
    /\ log' = Wrote("monitor", sdr, sdr')
    /\ UNCHANGED <<triggerVars, decoderVars, pipelineVars, sys, aud, deviceVars>>

NextTune ==
    \/ \E n \in TuneChunkLens : AudioChunk(n)
    \/ \E envelope \in TuneEnvelopes : \E freqError \in ErrorsSeen(sdr, envelope) :
           AudioSample(envelope, freqError)
    \/ MonitorStart
    \/ MonitorStop
    \/ RunDone
    \/ \E meas \in Measurements : RunTick(meas)
    \/ RunRetune

SpecTune == InitTune /\ [][NextTune]_vars

\* --------------------------------------------------- the monitor's audio queue
MaxPushes == 102

\* The n-th chunk pushed: the audio thread's chunks of chunkSize samples.
Chunk(n) == [id |-> n, len |-> ChunkSize]
InQueue == [i \in 1..Len(mon.audioInChan) |-> mon.audioInChan[i].id]

InitMonitor ==
    /\ st = NewSchmittTrigger(100, 5000, 4000, DebounceMs)
    /\ ret = Nil
    /\ outs = NoTransitions
    /\ run = NoRun
    /\ ended = NoRun
    /\ d = NewCWDecoder(ExperimentalConfig)
    /\ bd = NewBeamDecoder(EmptyLM)
    /\ hist = <<>>
    /\ exp = NewExperimentalDecoder(100, EmptyLM).e
    /\ sink = <<>>
    /\ sdr = NewSDRDemodulator(100, 703 * FreqScale, TRUE)
    /\ \E enabled \in BOOLEAN : mon = NewSpectrumMonitor(enabled)
    /\ sys = NewCWSystem(NoFile)
    /\ aud = IdleWorker
    /\ log = NoLog
    /\ DevicesAtRest

\* PushAudioData called by the audio thread with its next chunk.
PushAudioData(samples) ==
    /\ log.pushed < MaxPushes
    /\ mon' = PushAudioDataResult(mon, samples)
    /\ log' = [log EXCEPT
                  !.pushed = @ + 1,
                  !.accepted = IF mon.enabled /\ Len(mon'.audioInChan) > Len(mon.audioInChan)
                               THEN Append(@, samples.id) ELSE @,
                  !.dropped = IF mon.enabled /\ Len(mon'.audioInChan) <= Len(mon.audioInChan)
                              THEN Append(@, [id |-> samples.id,
                                              held |-> Len(mon.audioInChan),
                                              kept |-> mon'.audioInChan = mon.audioInChan])
                              ELSE @]
    /\ UNCHANGED <<triggerVars, decoderVars, pipelineVars, sdr, sys, aud, deviceVars>>

\* The receive branch of run.
RunReceive ==
    /\ mon.pc = "select"
    /\ mon.audioInChan # <<>>
    /\ mon' = ReceiveResult(mon)
    /\ log' = [log EXCEPT !.received = Append(@, Head(mon.audioInChan).id)]
    /\ UNCHANGED <<triggerVars, decoderVars, pipelineVars, sdr, sys, aud, deviceVars>>

NextMonitor ==
    \/ PushAudioData(Chunk(log.pushed + 1))
    \/ MonitorStart
    \/ MonitorStop
    \/ RunDone
    \/ RunReceive
    \/ \E meas \in Measurements : RunTick(meas)
    \/ RunRetune

SpecMonitor == InitMonitor /\ [][NextMonitor]_vars

\* ------------------------------------------------------------- replay mode
MaxTail == 8

\* The recordings replayed: the full chunks are the ones calibration takes to
\* fill its buffer, the short last chunk is given sample by sample.
Recordings ==
    {[full |-> k, tail |-> t] : k \in 0..(CalibrationSize \div ChunkSize),
                                t \in UNION {[1..n -> PipelineEnvelopes] : n \in 0..MaxTail}}

\* What FindDominantFrequency makes of a full calibration buffer: a peak above
\* MinSignalStrength at a frequency between 500 and 900 Hz, or noise.
Calibrations ==
    {[locked |-> FALSE, freq |-> 0],
     [locked |-> TRUE, freq |-> 600 * FreqScale],
     [locked |-> TRUE, freq |-> 705 * FreqScale]}

AtEndOfFile == sys.file.full = 0 /\ sys.file.tail = <<>>

InitReplay ==
    /\ LET w == NewExperimentalDecoder(100, EmptyLM)
       IN  /\ exp = w.e
           /\ st = w.st
           /\ d = w.d
           /\ bd = w.bd
           /\ sink = w.sink
    /\ ret = Nil
    /\ outs = NoTransitions
    /\ run = NoRun
    /\ ended = NoRun
    /\ hist = <<>>
    /\ sdr = NewSDRDemodulator(100, 703 * FreqScale, TRUE)
    /\ mon = NewSpectrumMonitor(TRUE)
    /\ \E file \in Recordings : sys = NewCWSystem(file)
    /\ aud = IdleWorker
    /\ log = NoLog
    /\ DevicesAtRest

\* runReplayLoop at end of file: ReadSamples returns an error and the loop
\* calls os.Exit(0); deferred calls, main's system.Stop() among them, do not
\* run.
ReplayExit ==
    /\ ~sys.exited
    /\ AtEndOfFile
    /\ sys' = [sys EXCEPT !.exited = TRUE]
    /\ UNCHANGED <<triggerVars, decoderVars, pipelineVars, sdr, mon, aud, log, deviceVars>>

\* runReplayLoop on a chunk while calibration is still running: runCalibration
\* appends the chunk and analyses the buffer once it holds fftSize samples.
ReplayCalibrate(cal) ==
    /\ ~sys.exited
    /\ ~AtEndOfFile
    /\ ~sys.isCalibrated
    /\ LET full   == sys.file.full > 0
           rest   == IF full THEN [sys.file EXCEPT !.full = @ - 1]
                     ELSE [sys.file EXCEPT !.tail = <<>>]
           filled == sys.calibrationLen + (IF full THEN ChunkSize ELSE Len(sys.file.tail))
       IN  IF filled < CalibrationSize
           THEN /\ sys' = [sys EXCEPT !.file = rest, !.calibrationLen = filled]
                /\ sdr' = sdr
           ELSE /\ sys' = [sys EXCEPT !.file = rest, !.calibrationLen = 0,
                                      !.isCalibrated = cal.locked]
                /\ sdr' = IF cal.locked THEN SetTargetFreqResult(sdr, cal.freq) ELSE sdr
    /\ UNCHANGED <<triggerVars, decoderVars, pipelineVars, mon, aud, log, deviceVars>>

\* Mutant of processAudioChunk: the chunk goes to the decoder whether or not
\* calibration has locked.
ReplayDecodeUncalibrated ==
    /\ ~sys.exited
    /\ ~AtEndOfFile
    /\ sys.file.full = 0
    /\ ~exp.closed
    /\ \E w \in ProcessAudioChunkResults(World, sys.file.tail) :
           /\ exp' = w.e
           /\ st' = w.st
           /\ d' = w.d
           /\ bd' = w.bd
           /\ sink' = w.sink
    /\ sys' = [sys EXCEPT !.file.tail = <<>>]
    /\ UNCHANGED <<ret, run, ended, outs, hist, sdr, mon, aud, log, deviceVars>>

\* runReplayLoop on the last chunk once calibrated: decoder.ProcessAudioChunk.
ReplayDecode ==
    /\ ~sys.exited
    /\ ~AtEndOfFile
    /\ sys.isCalibrated
    /\ sys.file.full = 0
    /\ ~exp.closed
    /\ \E w \in ProcessAudioChunkResults(World, sys.file.tail) :
           /\ exp' = w.e
           /\ st' = w.st
           /\ d' = w.d
           /\ bd' = w.bd
           /\ sink' = w.sink
    /\ sys' = [sys EXCEPT !.file.tail = <<>>]
    /\ UNCHANGED <<ret, run, ended, outs, hist, sdr, mon, aud, log, deviceVars>>

\* CWSystem.Stop, deferred by main and run when a signal ends the program:
\* the reader is closed, decoder.Stop flushes, and main returns.
SystemStop ==
    /\ ~sys.exited
    /\ \E w \in StopResults(World) :
           /\ exp' = w.e
           /\ d' = w.d
           /\ bd' = w.bd
           /\ sink' = w.sink
    /\ sys' = [sys EXCEPT !.exited = TRUE]
    /\ UNCHANGED <<st, ret, run, ended, outs, hist, sdr, mon, aud, log, deviceVars>>

NextReplay ==
    \/ ReplayExit
    \/ \E cal \in Calibrations : ReplayCalibrate(cal)
    \/ ReplayDecode
    \/ SystemStop

SpecReplay == InitReplay /\ [][NextReplay]_vars

\* ---- the pitch detector: Detect on successive windows, Reset on a retune
MaxDetects == 4

\* Every part but the loader, the radio client and the pitch detector, as
\* constructed and taking no step.
PipelineAtRest ==
    /\ st = NewSchmittTrigger(100, 5000, 4000, DebounceMs)
    /\ ret = Nil
    /\ outs = NoTransitions
    /\ run = NoRun
    /\ ended = NoRun
    /\ d = NewCWDecoder(ExperimentalConfig)
    /\ bd = NewBeamDecoder(EmptyLM)
    /\ hist = <<>>
    /\ exp = NewExperimentalDecoder(100, EmptyLM).e
    /\ sink = <<>>
    /\ sdr = NewSDRDemodulator(100, 703 * FreqScale, TRUE)
    /\ mon = NewSpectrumMonitor(TRUE)
    /\ sys = NewCWSystem(NoFile)
    /\ aud = IdleWorker
    /\ log = NoLog

\* The windows handed to Detect: too short or long enough, with a peak below
\* or above the noise threshold, near the first tone or far from it.
DetectInputs ==
    [len      : {1024, 2048},
     peakFreq : {f * FreqScale : f \in {600, 620, 650, 651, 1000}},
     peakMag  : {TruncDiv(EnvScale, 20), TruncDiv(EnvScale, 10), TruncDiv(EnvScale, 2)}]

InitPitch ==
    /\ PipelineAtRest
    /\ load = Unloaded(NoBigramFile)
    /\ civ = NewCIVClient
    /\ pd = NewPitchDetector(PitchTestConfig)
    /\ opt = HistoryAtRest

Detect(in) ==
    /\ pd.calls < MaxDetects
    /\ pd' = DetectResult(pd, in)
    /\ UNCHANGED <<triggerVars, decoderVars, pipelineVars, systemVars, load, civ, opt>>

Reset ==
    /\ pd.hasLock
    /\ pd' = ResetResult(pd)
    /\ UNCHANGED <<triggerVars, decoderVars, pipelineVars, systemVars, load, civ, opt>>

NextPitch ==
    \/ \E in \in DetectInputs : Detect(in)
    \/ Reset

SpecPitch == InitPitch /\ [][NextPitch]_vars

\* ---- the radio client: Open, then ReadFrequency against what the port delivers
MaxReads == 2

\* The echo of the read-frequency command and a response frame of the radio.
EchoFrame == CommandFrame(3, <<>>)
makeResponseFrame(cmd, data) ==
    <<CIV_PREAMBLE, CIV_PREAMBLE, CIV_ADDR_PC, CIV_ADDR_7300, cmd>> \o data \o <<CIV_END>>

\* Five BCD bytes, among them the 00 00 50 07 00 of the tests.
FreqData ==
    {<<d1, d2, d3, d4, d5>> : d1 \in {0, 37}, d2 \in {0, 153}, d3 \in {80, 5},
                              d4 \in {7, 20}, d5 \in {0, 1}}

\* What one conn.Read can hand back: a response with or without the echo in
\* front of it, the echo alone, a response cut short, a response to another
\* command, too few data bytes, nothing (timeout), or end of file.
Deliveries ==
    {[data |-> pre \o makeResponseFrame(3, fd), err |-> ""] :
         pre \in {<<>>, EchoFrame}, fd \in FreqData}
    \cup {[data |-> EchoFrame, err |-> ""],
          [data |-> EchoFrame \o <<CIV_PREAMBLE, CIV_PREAMBLE, CIV_ADDR_PC, CIV_ADDR_7300, 3, 0, 0>>,
           err |-> ""],
          [data |-> EchoFrame \o makeResponseFrame(4, <<3>>), err |-> ""],
          [data |-> EchoFrame \o makeResponseFrame(3, <<0, 80, 7>>), err |-> ""],
          [data |-> EchoFrame \o makeResponseFrame(3, <<>>), err |-> ""],
          [data |-> <<>>, err |-> ""],
          [data |-> <<>>, err |-> "EOF"]}

InitCIV ==
    /\ PipelineAtRest
    /\ load = Unloaded(NoBigramFile)
    /\ pd = NewPitchDetector(PitchTestConfig)
    /\ opt = HistoryAtRest
    /\ civ = NewCIVClient

\* CIVClient.Open, when the port can be opened.
Open ==
    /\ ~civ.open
    /\ civ' = [civ EXCEPT !.open = TRUE]
    /\ UNCHANGED <<triggerVars, decoderVars, pipelineVars, systemVars, load, pd, opt>>

\* CIVClient.ReadFrequency: the command is written unless the connection is
\* missing, and the read consumed only when the write went through.
ReadFrequency(writeErr, read) ==
    /\ civ.calls < MaxReads
    /\ civ' = [civ EXCEPT
                 !.calls = @ + 1,
                 !.written = IF civ.open /\ ~writeErr THEN Append(@, EchoFrame) ELSE @,
                 !.read = IF civ.open /\ ~writeErr THEN read ELSE [data |-> <<>>, err |-> ""],
                 !.result = ReadFrequencyResult(civ.open, writeErr, read)]
    /\ UNCHANGED <<triggerVars, decoderVars, pipelineVars, systemVars, load, pd, opt>>

NextCIV ==
    \/ Open
    \/ \E writeErr \in BOOLEAN : \E read \in Deliveries : ReadFrequency(writeErr, read)

SpecCIV == InitCIV /\ [][NextCIV]_vars

\* ---- loading the language model from the bigram file
MaxLeaves == 2

\* The leaves a bigram file may hold: a log-probability, or a value that is
\* not a number.
Leaves ==
    [prev : {"", "E"}, next : {"E", "T"}, val : {-1204}, isNumber : BOOLEAN]

\* The files NewLanguageModel may find: none that can be read, one that is not
\* JSON, or an object of objects with up to MaxLeaves leaves.
BigramFiles ==
    {NoBigramFile, [readable |-> TRUE, valid |-> FALSE, leaves |-> <<>>]}
    \cup {[readable |-> TRUE, valid |-> TRUE, leaves |-> ls] :
              ls \in UNION {[1..n -> Leaves] : n \in 0..MaxLeaves}}

InitLoad ==
    /\ PipelineAtRest
    /\ civ = NewCIVClient
    /\ pd = NewPitchDetector(PitchTestConfig)
    /\ opt = HistoryAtRest
    /\ \E content \in BigramFiles : load = Unloaded(content)

\* NewLanguageModel, and the decoder built on the model it returns.
LoadLanguageModel ==
    /\ load.state = "start"
    /\ load' = [content |-> load.content] @@ NewLanguageModelResult(load.content)
    /\ bd' = IF NewLanguageModelResult(load.content).state = "returned"
             THEN NewBeamDecoder(NewLanguageModelResult(load.content).table)
             ELSE bd
    /\ UNCHANGED <<triggerVars, d, hist, pipelineVars, systemVars, civ, pd, opt>>

NextLoad == LoadLanguageModel

SpecLoad == InitLoad /\ [][NextLoad]_vars

\* ---- the history optimizer: Push on envelopes, SuggestThreshold between them
MaxHistoryPushes == 3
HistorySlots == 24

\* The envelopes pushed: silence, a noise floor, a weak and a keyed carrier.
HistoryEnvelopes == {0, 10, 3000, 9000}

\* Histories the optimizer may hold when the model starts: a level with a few
\* dips to zero and a few spikes in the slots written so far.
Histories ==
    {[i \in 1..n |-> IF i <= dips THEN 0 ELSE IF i <= dips + spikes THEN 9000 ELSE level] :
         n \in {0, 1, HistorySlots - 3, HistorySlots},
         dips \in 0..3, spikes \in 0..2, level \in {0, 10, 3000}}

\* An optimizer of HistorySlots slots (0.24 s of history at 100 Hz) holding
\* the history written so far.
HistoryOptimizerWith(buffer) ==
    [NewHistoryOptimizer(30, 100) EXCEPT
        !.bufferSize = HistorySlots,
        !.buffer = buffer,
        !.head = Len(buffer) % HistorySlots,
        !.isFull = Len(buffer) = HistorySlots]

InitHistory ==
    /\ PipelineAtRest
    /\ load = Unloaded(NoBigramFile)
    /\ civ = NewCIVClient
    /\ pd = NewPitchDetector(PitchTestConfig)
    /\ \E buffer \in Histories :
           opt = [HistoryAtRest EXCEPT !.h = HistoryOptimizerWith(buffer)]

HistoryPush(value) ==
    /\ opt.calls < MaxHistoryPushes
    /\ opt' = [opt EXCEPT !.h = Push(@, value), !.calls = @ + 1]
    /\ UNCHANGED <<triggerVars, decoderVars, pipelineVars, systemVars, load, civ, pd>>

\* SuggestThreshold leaves the optimizer as it is; what it returned is kept.
Suggest ==
    /\ opt' = [opt EXCEPT
                 !.suggested = SuggestThresholdResult(opt.h),
                 !.seen = IF opt.h.isFull THEN opt.h.buffer
                          ELSE SubSeq(opt.h.buffer, 1, opt.h.head)]
    /\ UNCHANGED <<triggerVars, decoderVars, pipelineVars, systemVars, load, civ, pd>>

NextHistory ==
    \/ \E value \in HistoryEnvelopes : HistoryPush(value)
    \/ Suggest

SpecHistory == InitHistory /\ [][NextHistory]_vars

\* The same system with the scheduling the run goroutine gets: a callback
\* under way is finished, and a select that finds ctx.Done ready again and
\* again (Go picks among the ready branches uniformly at random) takes it in
\* the end.
FairTune == SpecTune /\ WF_vars(RunRetune) /\ SF_vars(RunDone)

\* ---- the "Missing Dot Repair" case of TestCWDecoder_Logic
MaxJittered == 2

\* The configuration of the case, and a table that favours "THE".
RepairConfig == [InitialWPM |-> 20, GlitchThresholdMs |-> 15 * DurScale, UpdateAlpha |-> 0]
TheLM == [k \in {<<"", "T">>, <<"T", "H">>, <<"H", "E">>}
            |-> CASE k = <<"", "T">> -> -105
                  [] k = <<"T", "H">> -> -51
                  [] k = <<"H", "E">> -> -51]

\* generateSignal at 20 WPM: a mark, the element gap after it, and for " "
\* the two units that make it a character gap.
RepairUnit == 60
Dit == <<[dur |-> RepairUnit, state |-> StateOn], [dur |-> RepairUnit, state |-> StateOff]>>
Dah == <<[dur |-> 3 * RepairUnit, state |-> StateOn], [dur |-> RepairUnit, state |-> StateOff]>>
CharGap == <<[dur |-> 2 * RepairUnit, state |-> StateOff]>>

\* "- " then "... " then ".": T, an H short of one dit, E.
RepairInputs == Dah \o CharGap \o Dit \o Dit \o Dit \o CharGap \o Dit

\* The calls made so far whose duration is not the one of the script.
Jittered == {i \in 1..Len(hist) : i <= Len(RepairInputs)
                                   /\ hist[i].dur # RepairInputs[i].dur * DurScale}

InitRepair ==
    /\ st = NewSchmittTrigger(100, 5000, 4000, DebounceMs)
    /\ ret = Nil
    /\ outs = NoTransitions
    /\ run = NoRun
    /\ ended = NoRun
    /\ d = NewCWDecoder(RepairConfig)
    /\ \E lm \in {EmptyLM, SmallLM, TheLM} : bd = NewBeamDecoder(lm)
    /\ hist = <<>>
    /\ exp = NewExperimentalDecoder(100, EmptyLM).e
    /\ sink = <<>>
    /\ SystemAtRest

\* The next FeedNew of the run loop; a mark may be keyed a little short or
\* long.
RepairFeed(jitter) ==
    /\ Len(hist) < Len(RepairInputs)
    /\ jitter # 0 => /\ RepairInputs[Len(hist) + 1].state = StateOn
                     /\ Cardinality(Jittered) < MaxJittered
    /\ \E o \in FeedNewResults(d, bd, (RepairInputs[Len(hist) + 1].dur + jitter) * DurScale,
                               RepairInputs[Len(hist) + 1].state) :
           /\ d' = o.d
           /\ bd' = o.bd
           /\ hist' = Append(hist, o.call)
    /\ UNCHANGED <<triggerVars, pipelineVars, systemVars, deviceVars>>

\* The CheckTimeout after the last input.
RepairTimeout ==
    /\ Len(hist) = Len(RepairInputs)
    /\ \E o \in CheckTimeoutResults(d, bd) :
           /\ d' = o.d
           /\ bd' = o.bd
           /\ hist' = Append(hist, o.call)
    /\ UNCHANGED <<triggerVars, pipelineVars, systemVars, deviceVars>>

NextRepair ==
    \/ \E jitter \in {-6, 0, 6} : RepairFeed(jitter)
    \/ RepairTimeout

SpecRepair == InitRepair /\ [][NextRepair]_vars

\* ---- the pipeline at its first threshold update, after two seconds of silence
MaxTunedSamples == 5

\* The ExperimentalDecoder at 48 kHz after TuneEvery - 1 samples of a zero
\* envelope: the history holds the 199 zeros pushed so far (one push every 480
\* samples), the trigger has counted the samples and seen no crossing, and its
\* thresholder has stayed at zero.
SilentSamples == TuneEvery - 1
AfterSilence ==
    LET w == NewExperimentalDecoder(48000, EmptyLM)
        pushes == SilentSamples \div w.e.historyOpt.downSample
    IN  [w EXCEPT
           !.e.samplesProcessed = SilentSamples,
           !.e.processedCnt = SilentSamples,
           !.e.historyOpt.buffer = [i \in 1..pushes |-> 0],
           !.e.historyOpt.head = pushes,
           !.e.historyOpt.counter = SilentSamples % w.e.historyOpt.downSample,
           !.st.totalSamples = SilentSamples]

InitAutoTune ==
    /\ exp = AfterSilence.e
    /\ st = AfterSilence.st
    /\ d = AfterSilence.d
    /\ bd = AfterSilence.bd
    /\ sink = AfterSilence.sink
    /\ ret = Nil
    /\ outs = NoTransitions
    /\ run = NoRun
    /\ ended = NoRun
    /\ hist = <<>>
    /\ SystemAtRest

\* ProcessAudioChunk on the chunks that follow the silence.
ProcessTunedChunk(samples) ==
    /\ ~exp.closed
    /\ exp.samplesProcessed + Len(samples) <= SilentSamples + MaxTunedSamples
    /\ \E w \in ProcessAudioChunkResults(World, samples) :
           /\ exp' = w.e
           /\ st' = w.st
           /\ d' = w.d
           /\ bd' = w.bd
           /\ sink' = w.sink
    /\ UNCHANGED <<ret, run, ended, outs, hist, systemVars, deviceVars>>

NextAutoTune ==
    \/ \E n \in ChunkLens : \E samples \in [1..n -> {0} \cup PipelineEnvelopes] :
           ProcessTunedChunk(samples)
    \/ Stop

SpecAutoTune == InitAutoTune /\ [][NextAutoTune]_vars

\* ------------------------------------------------- a decoder that has keyed
\* The keying of "A" (dit, dah) at the decoder's own speed, four times and a
\* dit: eight marks observed, the ninth pending.
MaxWarmEvents == 4

Keyed(unit) ==
    LET A == <<[dur |-> unit, state |-> StateOn], [dur |-> unit, state |-> StateOff],
               [dur |-> 3 * unit, state |-> StateOn], [dur |-> 3 * unit, state |-> StateOff]>>
    IN  A \o A \o A \o A
        \o <<[dur |-> unit, state |-> StateOn]>>

\* The decoders after FeedNew of every event in turn.
RECURSIVE FedAll(_, _, _)
FedAll(dd, b, events) ==
    IF events = <<>> THEN {[d |-> dd, bd |-> b]}
    ELSE UNION {FedAll(o.d, o.bd, Tail(events))
                : o \in FeedNewResults(dd, b, events[1].dur, events[1].state)}

InitWarm ==
    /\ st = NewSchmittTrigger(100, 5000, 4000, DebounceMs)
    /\ ret = Nil
    /\ outs = NoTransitions
    /\ run = NoRun
    /\ ended = NoRun
    /\ \E s \in Setups :
           \E o \in FedAll(NewCWDecoder(s.cfg), NewBeamDecoder(s.lm),
                           Keyed(NewCWDecoder(s.cfg).unitTime)) :
               /\ d = o.d
               /\ bd = o.bd
    /\ hist = <<>>
    /\ exp = NewExperimentalDecoder(100, EmptyLM).e
    /\ sink = <<>>
    /\ SystemAtRest

WarmFeedNew(durationMs, state) ==
    /\ Len(hist) < MaxWarmEvents
    /\ FeedNew(durationMs, state)

WarmCheckTimeout ==
    /\ Len(hist) < MaxWarmEvents
    /\ CheckTimeout

NextWarm ==
    \/ \E ms \in Durations : \E state \in {StateOn, StateOff} :
           WarmFeedNew(ms * DurScale, state)
    \/ WarmCheckTimeout

SpecWarm == InitWarm /\ [][NextWarm]_vars

\* ------------------------------------------------- the trigger's properties
\* C1 (as stated): from a settled state, once an excursion has lasted
\* debounceCount samples, Feed has returned exactly one transition in it and
\* stateStartSample is the sample count of the excursion's first sample.
C1_CommitAfterDebounceCount ==
    (run.settled /\ run.len >= 1 /\ run.len >= st.debounceCount)
        => (run.emits = 1 /\ st.stateStartSample = run.first)

\* C1 (amended): the commit needs debounceCount + 2 samples.  An excursion of
\* fewer samples has emitted nothing; one of debounceCount + 2 samples or more
\* has emitted exactly one transition, the state has changed, and
\* stateStartSample is the sample count of the excursion's first sample.
C1_CommitAfterDebouncePlusTwo ==
    (run.settled /\ run.len >= 1)
        => IF run.len >= st.debounceCount + 2
           THEN /\ run.emits = 1
                /\ st.currentState # run.from
                /\ st.stateStartSample = run.first
           ELSE /\ run.emits = 0
                /\ st.currentState = run.from

\* An excursion that went on after its commit, and emitted once.
C1_Witness ==
    /\ run.settled
    /\ run.len >= st.debounceCount + 3
    /\ run.emits = 1
    /\ st.stateStartSample = run.first
    /\ st.stateStartSample < st.totalSamples - st.debounceCount - 1

\* C2: an excursion of fewer than debounceCount samples that ends with the raw
\* signal agreeing again has emitted nothing, the sample ending it emits
\* nothing and leaves no change pending, and currentState and stateStartSample
\* are what they were before the excursion.
C2_ShortExcursionIgnored ==
    (ended.settled /\ ended.len >= 1 /\ ended.len < st.debounceCount)
        => /\ ended.emits = 0
           /\ ret.nil
           /\ ~st.pendingChange
           /\ st.currentState = ended.from
           /\ st.stateStartSample = ended.start0

C2_Witness ==
    /\ ended.settled
    /\ ended.len >= 1
    /\ ended.len < st.debounceCount
    /\ st.stateStartSample > 0

\* C3: Feed commits only when totalSamples - changeStartSample is strictly
\* greater than debounceCount, and it commits on the first such sample: a
\* change is never left pending once the difference exceeds debounceCount.
C3_StrictlyGreaterCommits ==
    /\ ~ret.nil => st.totalSamples - st.changeStartSample > st.debounceCount
    /\ st.pendingChange => st.totalSamples - st.changeStartSample <= st.debounceCount

\* A commit on the first sample past the debounce count, after a sample at
\* equality that did not commit.
C3_Witness ==
    /\ ~ret.nil
    /\ st.debounceCount >= 1
    /\ st.totalSamples - st.changeStartSample = st.debounceCount + 1

\* ------------------------------------------------- the decoder's properties
Last == hist[Len(hist)]

\* The pending mark is settled by the last call, and every call between call
\* i and the last one was a gap event.
SettlesAfter(i) ==
    /\ i < Len(hist)
    /\ Last.branch \in {"settle", "timeout"}
    /\ \A k \in (i + 1)..(Len(hist) - 1) : hist[k].branch = "gap"

\* Call i stitched a mark b to a mark a across a single gap g shorter than
\* the glitch threshold, with a + g + b at least twice the threshold.
BrokenMark(i) ==
    /\ i >= 3 /\ i <= Len(hist)
    /\ hist[i].branch = "stitch"
    /\ hist[i - 1].branch = "gap"
    /\ hist[i - 2].branch = "settle"
    /\ hist[i - 2].dur + hist[i - 1].dur + hist[i].dur >= 2 * d.cfg.GlitchThresholdMs

\* C4: when a mark a is followed by a gap g, 0 < g < GlitchThresholdMs, and a
\* mark b, with a + g + b >= 2 x GlitchThresholdMs, the buffer receives no
\* pulse while the three arrive, a + g + b is the pending mark, and the call
\* that settles it appends exactly one pulse, (a + g + b) / unitTime.
C4_BrokenMarkIsOnePulse ==
    \A i \in DOMAIN hist :
        BrokenMark(i) =>
            /\ hist[i].d.pulseBuffer = hist[i - 2].d.pulseBuffer
            /\ hist[i].d.pendingMarkDuration
                   = hist[i - 2].dur + hist[i - 1].dur + hist[i].dur
            /\ hist[i].d.lastGapDuration = 0
            /\ SettlesAfter(i) =>
                   /\ Last.mark = "real"
                   /\ Last.bufSettled
                          = Append(hist[i].d.pulseBuffer,
                                   Pulse(hist[i - 2].dur + hist[i - 1].dur + hist[i].dur,
                                         Last.unit))

\* A broken dah settled as the one pulse of the buffer.
C4_Witness ==
    \E i \in DOMAIN hist :
        /\ BrokenMark(i)
        /\ SettlesAfter(i)
        /\ Len(Last.bufSettled) = 1
        /\ Last.bufSettled[1] > 2 * PulseScale

\* Call i settles a spike m (a mark of at most GlitchThresholdMs) that was
\* staged by call i - 2 after a gap g1 and is followed by the gap g2 of call
\* i - 1, neither gap shorter than the glitch threshold.
SpikeBetweenGaps(i) ==
    /\ i >= 3 /\ i <= Len(hist)
    /\ hist[i].branch = "settle" /\ hist[i].mark = "glitch"
    /\ hist[i - 1].branch = "gap" /\ hist[i - 1].dur >= d.cfg.GlitchThresholdMs
    /\ hist[i - 2].branch = "settle"
    /\ hist[i - 2].settledGap >= d.cfg.GlitchThresholdMs

\* C5 (as stated): a spike m between the gaps g1 and g2 stores no mark pulse,
\* and the gap that is classified next is the silence g1 + m + g2 (up to the
\* rounding of one pulse), whatever g1 was.
C5_TrueSilenceClassified ==
    \A i \in DOMAIN hist :
        SpikeBetweenGaps(i) =>
            /\ Len(hist[i].bufSettled) <= Len(hist[i - 2].d.pulseBuffer)
            /\ Abs(hist[i].settledGap
                   - (hist[i - 2].settledGap + hist[i - 2].dur + hist[i - 1].dur))
                   <= DurScale \div 10

\* The beam after a pruning: sorted by score, at most MaxBeamWidth paths, all
\* within PruneThreshold of the best, no LastChar twice.
WellPruned(paths) ==
    /\ \A i, j \in DOMAIN paths : i < j => paths[i].TotalScore >= paths[j].TotalScore
    /\ Len(paths) <= MaxBeamWidth
    /\ \A i \in DOMAIN paths :
           paths[i].TotalScore >= paths[1].TotalScore - PruneThreshold * ScoreScale
    /\ \A i, j \in DOMAIN paths : i # j => paths[i].LastChar # paths[j].LastChar

\* C6: after every Step and every InjectSpace the paths are in non-increasing
\* order of TotalScore, at most MaxBeamWidth, each within 10.0 of the best,
\* and no two with the same LastChar.
C6_PathsWellPruned ==
    (hist # <<>> /\ (Last.stepped \/ Last.spaced))
        => /\ WellPruned(Last.pathsStep)
           /\ WellPruned(bd.paths)

\* A Step that kept several paths, followed by an InjectSpace that merged them.
C6_Witness ==
    /\ hist # <<>>
    /\ Last.stepped /\ Last.spaced
    /\ Len(Last.pathsStep) >= 2
    /\ Len(bd.paths) = 1
    /\ bd.paths[1].LastChar = " "

\* No pattern reaches an emission score of -50 on the pulse vector (the score
\* does not depend on the path).
NoCandidate(inputSignal) ==
    \A k \in DOMAIN Patterns :
        CalculateEmissionScore_Advanced(inputSignal, Patterns[k].Sequence,
                                        FallbackDitStdDev, FallbackDahStdDev)
            < -50 * ScoreScale

\* C7: a Step on a pulse vector for which no character reaches emission score
\* -50 leaves the paths exactly as they were, and the paths are never empty.
C7_NoCandidateKeepsPaths ==
    /\ bd.paths # <<>>
    /\ (hist # <<>> /\ Last.stepped)
           => /\ Last.pathsStep # <<>>
              /\ NoCandidate(Last.stepInput) => Last.pathsStep = Last.pathsBefore

\* A Step on a vector no pattern matches, with a decoded sentence to keep.
C7_Witness ==
    /\ hist # <<>>
    /\ Last.stepped
    /\ NoCandidate(Last.stepInput)
    /\ Last.pathsBefore[1].Sentence # <<>>
    /\ Last.pathsStep = Last.pathsBefore

\* The last call was a FeedNew that settled a gap.
SettledGap == hist # <<>> /\ Last.op = "FeedNew" /\ Last.branch = "settle"

DecodedOnto(sentence, paths) ==
    /\ sentence # <<>>
    /\ sentence[Len(sentence)] # " "
    /\ \E i \in DOMAIN paths : paths[i].Sentence = SubSeq(sentence, 1, Len(sentence) - 1)

C10_NoEmptyTextEmitted ==
    \A i \in DOMAIN sink : sink[i] # <<>>

\* What holds of the code: processSample never emits the empty string (every
\* text received before Stop is non-empty), and Stop emits exactly one text.
C10_OnlyStopEmitsEmpty ==
    /\ \A i \in DOMAIN sink : (sink[i] = <<>>) => (exp.closed /\ i = Len(sink))
    /\ exp.closed => sink # <<>>

\* ------------------------------------------- the symbol buffer's properties
\* The decoder as it was before call i.
Before(i) == IF i = 1 THEN NewCWDecoder(hist[1].d.cfg) ELSE hist[i - 1].d

\* Call i settled a real mark, which is the call of updateWPM1.
UpdatesWPM(i) == hist[i].branch = "settle" /\ hist[i].mark = "real"

\* C16 (as stated): unitTime is at least 10 ms in every state, from
\* construction on, whatever InitialWPM the decoder was configured with.
C16_UnitTimeAtLeastTen == d.unitTime >= 10 * DurScale

\* What holds of the code: every call of updateWPM1 leaves unitTime at 10 ms
\* or more, and a unitTime found below 10 ms is reset to 60 ms there.
C16_UpdateRestoresFloor ==
    \A i \in DOMAIN hist :
        UpdatesWPM(i) =>
            /\ hist[i].unit >= 10 * DurScale
            /\ Before(i).unitTime < 5 * DurScale => hist[i].unit = 60 * DurScale

\* The candidate unit of a mark: the mark if it is a dit, a third of it if it
\* is a dah (longer than 2.2 unit times while the analyzer's window of ten
\* marks is not full).
SampleUnit(dur, u) == IF dur * 10 > u * 22 THEN TruncDiv(dur, 3) ELSE dur

Smoothed(alpha, sampleUnit, u) ==
    TruncDiv(alpha * sampleUnit + (AlphaScale - alpha) * u, AlphaScale)

Floored(u) == IF u < 10 * DurScale THEN 60 * DurScale ELSE u

\* C17 (as stated): updateWPM1 replaces unitTime by
\* alpha x sampleUnit + (1 - alpha) x unitTime exactly when
\* 0.5 x unitTime <= sampleUnit <= 1.5 x unitTime, both bounds included, and
\* leaves it unchanged otherwise (apart from the 10 ms floor).
C17_UpdateWithinInclusiveBand ==
    \A i \in DOMAIN hist :
        UpdatesWPM(i) =>
            LET u == Before(i).unitTime
                s == SampleUnit(hist[i].settledMark, u)
            IN  hist[i].unit
                    = Floored(IF 2 * s >= u /\ 2 * s <= 3 * u
                              THEN Smoothed(hist[i].d.cfg.UpdateAlpha, s, u) ELSE u)

\* What holds of the code: the same with both bounds excluded.
C17_UpdateWithinStrictBand ==
    \A i \in DOMAIN hist :
        UpdatesWPM(i) =>
            LET u == Before(i).unitTime
                s == SampleUnit(hist[i].settledMark, u)
            IN  hist[i].unit
                    = Floored(IF 2 * s > u /\ 2 * s < 3 * u
                              THEN Smoothed(hist[i].d.cfg.UpdateAlpha, s, u) ELSE u)

\* A sentence that neither begins with a space nor holds two in a row.
NoStraySpace(sentence) ==
    /\ sentence # <<>> => sentence[1] # " "
    /\ \A k \in 1..(Len(sentence) - 1) : ~(sentence[k] = " " /\ sentence[k + 1] = " ")

\* What InjectSpace is to make of a path.
WithOneSpace(lm, p) ==
    IF p.Sentence # <<>> /\ p.Sentence[Len(p.Sentence)] # " "
    THEN [Sentence   |-> p.Sentence \o <<" ">>,
          LastChar   |-> " ",
          TotalScore |-> p.TotalScore + GetTransitionScore(lm, p.LastChar, " ")]
    ELSE p

\* C18: InjectSpace appends exactly one space (LastChar " ", the score of the
\* transition from the previous LastChar to " " added) to each path whose
\* sentence is non-empty and does not end in a space, and leaves every other
\* path as it is; no sentence ever begins with a space or holds two in a row.
C18_OneSpacePerPath ==
    /\ \A i \in DOMAIN bd.paths : NoStraySpace(bd.paths[i].Sentence)
    /\ (hist # <<>> /\ Last.spaced)
           => /\ bd.paths # <<>>
              /\ \A i \in DOMAIN bd.paths :
                     \E j \in DOMAIN Last.pathsStep :
                         bd.paths[i] = WithOneSpace(bd.lm, Last.pathsStep[j])

\* InjectSpace called on a path that already ends in the space of an earlier
\* word gap.
C18_Witness ==
    /\ hist # <<>> /\ Last.spaced
    /\ \E j \in DOMAIN Last.pathsStep :
           /\ Len(Last.pathsStep[j].Sentence) >= 2
           /\ Last.pathsStep[j].Sentence[Len(Last.pathsStep[j].Sentence)] = " "
    /\ Last.text = Last.pathsStep[1].Sentence

\* C19: CheckTimeout with a pending mark appends it to the buffer, steps the
\* decoder once with that buffer, clears the pending mark and the buffer and
\* returns the best sentence; without a pending mark it returns "" and
\* changes nothing, so a CheckTimeout right after a CheckTimeout is a no-op.
C19_CheckTimeoutFlushesOnce ==
    /\ \A i \in DOMAIN hist :
           hist[i].op = "CheckTimeout" =>
               IF Before(i).pendingMarkDuration > 0
               THEN /\ hist[i].stepped
                    /\ hist[i].stepInput
                           = Append(Before(i).pulseBuffer,
                                    Pulse(Before(i).pendingMarkDuration, Before(i).unitTime))
                    /\ hist[i].text = hist[i].pathsStep[1].Sentence
                    /\ hist[i].d.pendingMarkDuration = 0
                    /\ hist[i].d.pulseBuffer = <<>>
               ELSE /\ ~hist[i].stepped
                    /\ hist[i].text = <<>>
                    /\ hist[i].d = Before(i)
                    /\ hist[i].pathsStep = hist[i].pathsBefore
    /\ \A i \in DOMAIN hist :
           (i > 1 /\ hist[i].op = "CheckTimeout" /\ hist[i - 1].op = "CheckTimeout")
               => /\ hist[i].d = hist[i - 1].d
                  /\ hist[i].pathsStep = hist[i - 1].pathsStep
                  /\ hist[i].text = <<>>
    /\ (hist # <<>> /\ Last.op = "CheckTimeout")
           => /\ d = Last.d
              /\ bd.paths = Last.pathsStep
              /\ Last.stepped
                     => bd \in Step([bd EXCEPT !.paths = Last.pathsBefore], Last.stepInput)

\* A CheckTimeout that flushed a pending mark onto a buffer already holding a
\* mark and a gap and decoded a character, followed by a second CheckTimeout.
C19_Witness ==
    /\ Len(hist) >= 2
    /\ Last.op = "CheckTimeout"
    /\ hist[Len(hist) - 1].op = "CheckTimeout"
    /\ Len(hist[Len(hist) - 1].stepInput) = 3
    /\ hist[Len(hist) - 1].text # <<>>

\* The FeedNew calls alternate between marks and gaps.
Alternating ==
    \A i, j \in DOMAIN hist :
        (/\ i < j
         /\ hist[i].op = "FeedNew" /\ hist[j].op = "FeedNew"
         /\ \A k \in (i + 1)..(j - 1) : hist[k].op # "FeedNew")
            => hist[i].state # hist[j].state

\* Pulses that start and end with a mark and alternate mark / gap.
MarkGapMark(kinds) ==
    /\ Len(kinds) % 2 = 1
    /\ \A k \in DOMAIN kinds : kinds[k] = IF k % 2 = 1 THEN "mark" ELSE "gap"

\* C20: when the events fed to FeedNew alternate between marks and gaps (all
\* of positive duration), every buffer handed to Step, by FeedNew or by
\* CheckTimeout, has odd length, starts and ends with a mark and alternates
\* mark / gap.
C20_StepInputAlternates ==
    Alternating =>
        \A i \in DOMAIN hist :
            hist[i].stepped =>
                /\ Len(hist[i].stepKinds) = Len(hist[i].stepInput)
                /\ MarkGapMark(hist[i].stepKinds)

\* A step right after delCode took the gap before a spike back out of the
\* buffer.
C20_Witness ==
    /\ hist # <<>> /\ Alternating
    /\ Last.stepped
    /\ Last.mark = "glitch"
    /\ Before(Len(hist)).pulseBuffer # <<>>
    /\ Len(Last.stepInput) = Len(Before(Len(hist)).pulseBuffer) - 1

\* --------------------------------------------- the thresholder's properties
\* The dynamic range the thresholder tracks, and whether its last Update
\* returned the squelch values (the range is below minRange).
DynRange(t) == t.thresholder.maxLevel - t.thresholder.minLevel
Starved == st.totalSamples > 0 /\ DynRange(st) < MinRange

\* C15 (as stated): while the tracked dynamic range is below minRange the
\* trigger stays in the space state and returns no finished mark.
C15_StarvedTriggerStaysInSpace ==
    Starved => /\ ~st.currentState
               /\ ret.nil \/ ~ret.FinishedState

\* C15, the thresholds: while the range is below minRange the thresholds in
\* force in the trigger are the squelch values (10.0, 9.0).
C15_SquelchThresholdsInForce ==
    Starved => /\ st.thresholdHigh = 10 * EnvScale
               /\ st.thresholdLow = 9 * EnvScale

\* What holds of the code: Feed never writes the thresholds; they are the
\* ones of the constructor or of the last SetThresholds.
C15_ThresholdsOnlySet ==
    [][(\E e \in WeakEnvelopes : Feed(e))
           => /\ st'.thresholdHigh = st.thresholdHigh
              /\ st'.thresholdLow = st.thresholdLow]_vars

\* ------------------------------------------------ the demodulator's properties
OneCall(i) == log.calls[i]

\* The current target of a demodulator: the target the AFC was last centred on.
CurrentTarget(s) == s.afc.targetFreq

\* C14: in every sequence of SetTargetFreq calls, a call within 5 Hz of the
\* current target (the most recently accepted one) changes nothing, and a call
\* more than 5 Hz from the current target re-centres the AFC: its target and
\* current frequency become the new value.
C14_HysteresisAgainstCurrentTarget ==
    \A i \in 1..Len(log.calls) :
        IF Abs(OneCall(i).freq - CurrentTarget(OneCall(i).before)) <= 5 * FreqScale
        THEN OneCall(i).after = OneCall(i).before
        ELSE /\ OneCall(i).after.afc.targetFreq = OneCall(i).freq
             /\ OneCall(i).after.afc.CurrentFreq = OneCall(i).freq

\* What SetTargetFreq does instead: the demodulator's own targetFreq stays the
\* one it was constructed with, and a call re-centres the AFC exactly when it is
\* more than 5 Hz from that and at least 5 Hz from the AFC's target.
C14_HysteresisAgainstConstructionTarget ==
    /\ sdr.targetFreq = 700 * FreqScale
    /\ \A i \in 1..Len(log.calls) :
           IF /\ Abs(OneCall(i).freq - 700 * FreqScale) > 5 * FreqScale
              /\ Abs(OneCall(i).freq - CurrentTarget(OneCall(i).before)) >= 5 * FreqScale
           THEN /\ OneCall(i).after.afc.targetFreq = OneCall(i).freq
                /\ OneCall(i).after.afc.CurrentFreq = OneCall(i).freq
                /\ OneCall(i).after.afc.signalConsecutive = 0
           ELSE OneCall(i).after = OneCall(i).before

\* A call near the construction-time target is ignored although the AFC is
\* centred 100 Hz away.
C14_IgnoredFarFromCurrentTarget ==
    \E i \in 1..Len(log.calls) :
        /\ CurrentTarget(OneCall(i).before) = 800 * FreqScale
        /\ OneCall(i).freq = 702 * FreqScale
        /\ OneCall(i).after = OneCall(i).before

\* ---------------------------------------------------- the monitor's properties
\* C13: PushAudioData never blocks: every call returns with the chunk either
\* queued or dropped; a chunk is dropped only when the channel already holds
\* its capacity of 100 chunks, and the queued chunks are then kept; the chunks
\* accepted are received by the monitor in the order they were pushed.
C13_DropNewestKeepsOrder ==
    /\ Len(mon.audioInChan) <= ChanCapacity
    /\ mon.enabled => log.pushed = Len(log.accepted) + Len(log.dropped)
    /\ \A i \in 1..Len(log.dropped) :
           log.dropped[i].held = ChanCapacity /\ log.dropped[i].kept
    /\ log.accepted = log.received \o InQueue
    /\ \A i \in 1..(Len(log.accepted) - 1) : log.accepted[i] < log.accepted[i + 1]

\* A chunk was dropped at a full channel, the monitor has received chunks
\* since, and a later chunk was accepted again.
C13_Witness ==
    /\ Len(log.dropped) > 0
    /\ Len(log.received) > 0
    /\ Len(log.accepted) > ChanCapacity

\* ----------------------------------------------- the frequency state's writers
\* C12: every write to the SDR/AFC frequency state (target frequency, current
\* frequency, phase increment, consecutive-signal counter) is made by the
\* audio worker; a frequency published by the monitor is never written by the
\* monitor's goroutine, and so never while the worker is inside a chunk.
C12_FrequencyWritesOnAudioWorker == log.writer # "monitor"

\* The monitor's goroutine has written the AFC's frequencies while the audio
\* worker was inside a chunk, the worker has since run AFC.Update on the new
\* target, and the monitor's second group of writes is still to come.
C12_MonitorWritesMidChunk ==
    /\ log.writer = "audio"
    /\ log.midChunk
    /\ mon.pc = "retune"
    /\ aud.left > 0
    /\ sdr.afc.targetFreq = 800 * FreqScale
    /\ sdr.afc.phaseInc = PhaseInc(700 * FreqScale, 100)

\* While the monitor has not been started, only the audio worker writes.
C12_IdleMonitorNeverWrites == mon.pc = "idle" => log.writer # "monitor"

\* ------------------------------------------------------ replay's properties
\* C11: in replay mode the symbol buffer is flushed before the system shuts
\* down at end of stream, so that no pending mark is lost: when the program
\* has exited, no mark is left pending in the symbol buffer.
C11_FlushedBeforeExit ==
    sys.exited => d.pendingMarkDuration = 0

\* The program has exited at end of file with a mark pending in the symbol
\* buffer and without Stop having run.
C11_PendingMarkLost ==
    /\ sys.exited
    /\ AtEndOfFile
    /\ d.pendingMarkDuration > 0
    /\ ~exp.closed

\* The flush happens only on the other way out, CWSystem.Stop.
C11_StopFlushes ==
    (sys.exited /\ exp.closed) => d.pendingMarkDuration = 0 /\ Len(sink) > 0

\* ------------------------------------------- the trigger's sample counters
\* C26: totalSamples increases by exactly one per Feed call (a step that
\* changes anything but the two thresholds is a Feed); in every reachable state
\* stateStartSample <= totalSamples, and while a change is pending
\* stateStartSample <= changeStartSample <= totalSamples; every DurationMs
\* returned is non-negative.
C26_SampleCountersOrdered ==
    /\ [](/\ st.stateStartSample <= st.totalSamples
          /\ st.pendingChange => /\ st.stateStartSample <= st.changeStartSample
                                 /\ st.changeStartSample <= st.totalSamples
          /\ ~ret.nil => ret.DurationMs >= 0)
    /\ [][\/ st'.totalSamples = st.totalSamples + 1
          \/ st' = [st EXCEPT !.thresholdHigh = st'.thresholdHigh,
                              !.thresholdLow = st'.thresholdLow]]_vars

\* A change has been pending for at least one sample, in a state that itself
\* began with an earlier commit.
C26_Witness ==
    /\ st.pendingChange
    /\ st.stateStartSample > 0
    /\ st.changeStartSample > st.stateStartSample
    /\ st.changeStartSample < st.totalSamples

\* C30: when Feed commits a change (currentState flips), the transition it
\* returns has FinishedState equal to the state held before the commit and
\* DurationMs = (changeStartSample - stateStartSample) / sampleRate * 1000, and
\* stateStartSample becomes changeStartSample: the samples of the debounce
\* window belong to the new state.
C30_CommitCreditsDebounceToNewState ==
    [][st'.currentState # st.currentState
          => /\ st.pendingChange
             /\ ~ret'.nil
             /\ ret'.FinishedState = st.currentState
             /\ ret'.DurationMs
                    = DurationMs(st, st.changeStartSample - st.stateStartSample)
             /\ st'.stateStartSample = st.changeStartSample
             /\ st'.stateStartSample < st'.totalSamples - st.debounceCount]_vars

\* A commit just made after a debounce window of two samples or more: the new
\* state already counts the window, the finished one lasted longer than zero.
C30_Witness ==
    /\ ~ret.nil
    /\ ret.DurationMs > 0
    /\ ~st.pendingChange
    /\ st.debounceCount >= 2
    /\ st.stateStartSample = st.changeStartSample
    /\ st.totalSamples - st.stateStartSample = st.debounceCount + 1

\* ------------------------------------------------------ the AFC's properties
\* C23: after any sequence of Update and UpdateTargetFreq calls, CurrentFreq
\* lies within targetFreq - 100 Hz and targetFreq + 100 Hz, and phaseInc is
\* 2 * pi * CurrentFreq / sampleRate.
C23_CurrentFreqClampedAndPhaseInSync ==
    /\ sdr.afc.CurrentFreq >= sdr.afc.targetFreq - AfcRange * FreqScale
    /\ sdr.afc.CurrentFreq <= sdr.afc.targetFreq + AfcRange * FreqScale
    /\ sdr.afc.phaseInc = PhaseInc(sdr.afc.CurrentFreq, sdr.afc.sampleRate)

\* The AFC was re-centred, and corrections since have run CurrentFreq into the
\* upper clamp of the new target.
C23_Witness ==
    /\ \E i \in 1..Len(log.calls) : log.calls[i].moved
    /\ sdr.afc.targetFreq # 700 * FreqScale
    /\ sdr.afc.CurrentFreq = sdr.afc.targetFreq + AfcRange * FreqScale
    /\ sdr.afc.signalConsecutive > AfcSettle

\* ------------------------------------------- the pitch detector's properties
\* C29: with a lock, a Detect on a full window whose peak is above the noise
\* threshold but further than MaxJumpHz from the last frequency returns the
\* last frequency with found = TRUE, and leaves lastFreq and hasLock as they
\* were.
C29_JumpRejectedKeepsLock ==
    [][(/\ pd'.calls = pd.calls + 1
        /\ pd.hasLock
        /\ pd'.input.len >= pd.config.FFTSize
        /\ pd'.input.peakMag > pd.config.NoiseThreshold
        /\ Abs(pd'.input.peakFreq - pd.lastFreq) > pd.config.MaxJumpHz)
          => /\ pd'.ret = [freq |-> pd.lastFreq, found |-> TRUE]
             /\ pd'.lastFreq = pd.lastFreq
             /\ pd'.hasLock = pd.hasLock]_vars

\* A locked detector that has smoothed towards a nearby tone and then met a
\* strong peak at 1000 Hz: the smoothed frequency is returned and kept.
C29_Witness ==
    /\ pd.hasLock
    /\ pd.calls >= 3
    /\ pd.input.len >= pd.config.FFTSize
    /\ pd.input.peakMag > pd.config.NoiseThreshold
    /\ pd.input.peakFreq = 1000 * FreqScale
    /\ pd.lastFreq = 602 * FreqScale
    /\ pd.ret = [freq |-> pd.lastFreq, found |-> TRUE]

\* ------------------------------------------------ the radio client's properties
\* The two decimal digits of a BCD byte, and the last read as an echo followed
\* by one response frame of five BCD data bytes.
BcdDigits(b) == (b \div 16) * 10 + (b % 16)
EchoThenResponse(data) ==
    /\ civ.calls > 0
    /\ civ.read = [data |-> EchoFrame \o makeResponseFrame(3, data), err |-> ""]

\* C28: when the bytes received are the echo of the command followed by the
\* response frame FE FE E0 94 03 d1..d5 FD, ReadFrequency skips the echo and
\* returns without error the frequency of the five BCD bytes, least-significant
\* pair first; 00 00 50 07 00 gives 7050000 Hz.
C28_EchoSkippedFrequencyAsInTests ==
    \A data \in FreqData :
        EchoThenResponse(data) =>
            /\ civ.result.err = ""
            /\ civ.result.freq = BcdDigits(data[1]) + 100 * BcdDigits(data[2])
                                   + 10000 * BcdDigits(data[3]) + 1000000 * BcdDigits(data[4])
                                   + 100000000 * BcdDigits(data[5])
            /\ data = <<0, 0, 80, 7, 0>> => civ.result.freq = 7050000

\* C28, the decoding without the example: the echo is skipped and the five BCD
\* bytes are read least-significant pair first.
C28_EchoSkippedFrequencyDecoded ==
    \A data \in FreqData :
        EchoThenResponse(data) =>
            /\ civ.result.err = ""
            /\ civ.result.freq = BcdDigits(data[1]) + 100 * BcdDigits(data[2])
                                   + 10000 * BcdDigits(data[3]) + 1000000 * BcdDigits(data[4])
                                   + 100000000 * BcdDigits(data[5])

\* C28: what ReadFrequency returns for the bytes of the tests, 00 00 50 07 00
\* behind the echo: 7500000 Hz.
C28_TestBytesGive7500000 ==
    EchoThenResponse(<<0, 0, 80, 7, 0>>) => civ.result = [freq |-> 7500000, err |-> ""]

\* The bytes of the tests have been read behind the echo.
C28_Witness == EchoThenResponse(<<0, 0, 80, 7, 0>>) /\ civ.result.err = ""

\* --------------------------------------------------- the loader's properties
\* C21: loading fails fatally both when the bigram file cannot be read and
\* when its content is not valid JSON; no language model is returned after a
\* failed parse.
C21_FailedLoadIsFatal ==
    /\ (load.state # "start" /\ ~load.content.readable) => load.state = "panicked"
    /\ (load.state # "start" /\ load.content.readable /\ ~load.content.valid)
           => load.state = "panicked"
    /\ load.parseErr => load.state # "returned"

\* C21, the first half: a file that cannot be read ends the load in a panic.
C21_UnreadableFileIsFatal ==
    (load.state # "start" /\ ~load.content.readable) => load.state = "panicked"

\* C21: after a failed parse the model is returned with whatever Unmarshal
\* had stored; nothing when the content is not JSON.
C21_FailedParseReturnsModel ==
    (load.state # "start" /\ load.content.readable /\ ~load.content.valid)
        => /\ load.state = "returned"
           /\ load.parseErr
           /\ load.table = EmptyLM
           /\ bd.lm = EmptyLM

\* A file that is not JSON has been loaded and a model returned.
C21_WitnessInvalidJson == load.state = "returned" /\ load.parseErr /\ ~load.content.valid

\* ------------------------------------------- the language model's properties
\* The score the table gives a transition: the tabulated value, log(0.05) at
\* the start of a sentence, log(1e-6) otherwise.
TabulatedOrDefault(table, prev, next) ==
    CASE <<prev, next>> \in DOMAIN table -> table[<<prev, next>>]
      [] <<prev, next>> \notin DOMAIN table /\ prev = "" -> -2996
      [] OTHER -> -13816

\* C22: GetTransitionScore(prev, next) is the tabulated value if the pair is
\* present, otherwise log(0.05) when prev is the empty string, otherwise
\* log(1e-6): for every pair, and in the score InjectSpace adds to a path it
\* extends; and no step of the decoder (Step, InjectSpace) changes the table.
C22_ScoresFromUnchangedTable ==
    /\ [](/\ \A prev \in {"", " ", "E", "T", "S"} : \A next \in {" ", "E", "T", "S"} :
                 GetTransitionScore(bd.lm, prev, next) = TabulatedOrDefault(bd.lm, prev, next)
          /\ (hist # <<>> /\ Last.spaced) =>
                 \A i \in DOMAIN bd.paths :
                     \E j \in DOMAIN Last.pathsStep :
                         \/ bd.paths[i] = Last.pathsStep[j]
                         \/ /\ bd.paths[i].Sentence = Append(Last.pathsStep[j].Sentence, " ")
                            /\ bd.paths[i].TotalScore
                                 = Last.pathsStep[j].TotalScore
                                     + TabulatedOrDefault(bd.lm, Last.pathsStep[j].LastChar, " "))
    /\ [][bd'.lm = bd.lm]_vars

\* A decoder with the small table has stepped and injected a space, and a
\* path was extended from a character whose transition to " " is tabulated:
\* the tabulated value was added, and the table is the one it was built with.
C22_Witness ==
    /\ bd.lm = SmallLM
    /\ Len(hist) >= 2 /\ Last.spaced
    /\ \E j \in DOMAIN Last.pathsStep :
           /\ <<Last.pathsStep[j].LastChar, " ">> \in DOMAIN bd.lm
           /\ \E i \in DOMAIN bd.paths :
                  /\ bd.paths[i].Sentence = Append(Last.pathsStep[j].Sentence, " ")
                  /\ bd.paths[i].TotalScore = Last.pathsStep[j].TotalScore
                                                + bd.lm[<<Last.pathsStep[j].LastChar, " ">>]

\* ----------------------------------------- the history optimizer's properties
\* The last SuggestThreshold call was made on a non-empty history.
SuggestedOnHistory == opt.seen # <<>>

\* C24: on a non-empty history whose peak (p95) is at most its noise floor
\* (p10), a history of all zeros included, SuggestThreshold returns a threshold
\* strictly greater than the peak.
C24_FlatHistoryIsSquelched ==
    (SuggestedOnHistory /\ opt.suggested.peak <= opt.suggested.noise)
        => opt.suggested.threshold > opt.suggested.peak

\* C24, away from zero: with a peak at most a positive noise floor the
\* threshold is three times the noise floor, above the peak.
C24_FlatPositiveHistoryIsSquelched ==
    (SuggestedOnHistory /\ opt.suggested.peak <= opt.suggested.noise
        /\ opt.suggested.noise > 0)
        => /\ opt.suggested.threshold = 3 * opt.suggested.noise
           /\ opt.suggested.threshold > opt.suggested.peak

\* C24, at zero: a history whose p10 and p95 are both 0 gets the threshold 0,
\* the peak itself.
C24_ZeroHistoryGetsZero ==
    (SuggestedOnHistory /\ opt.suggested.peak = 0 /\ opt.suggested.noise = 0)
        => opt.suggested.threshold = 0

\* SuggestThreshold has been called on a full history of zeros with one spike.
C24_WitnessZeros ==
    /\ SuggestedOnHistory
    /\ opt.h.isFull
    /\ opt.suggested = [threshold |-> 0, peak |-> 0, noise |-> 0]
    /\ \E i \in DOMAIN opt.seen : opt.seen[i] = 9000

\* ------------------------------------------------ the monitor's shutdown
\* C25 (as stated): once Stop has been called the run loop completes at most
\* the tick in flight: no tick is begun, and so no OnFrequencyUpdate callback
\* is started, with the context already cancelled.
C25_NoTickBegunAfterStop ==
    [][mon'.ticks > mon.ticks => ~mon.cancelled]_vars

\* C25, the return: under fair scheduling a started loop whose context is
\* cancelled returns.
C25_StoppedLoopReturns ==
    (mon.cancelled /\ mon.pc \in {"select", "retune"}) ~> (mon.pc = "done")

\* C25, after the return: a loop that has returned stays returned, begins no
\* tick and writes no frequency.
C25_NothingAfterReturn ==
    [][mon.pc = "done" => /\ mon'.pc = "done"
                          /\ mon'.ticks = mon.ticks
                          /\ log'.writer = "monitor" => log' = log]_vars

\* A tick begun after Stop has retuned the demodulator.
C25_TickAfterStop ==
    /\ mon.cancelled
    /\ mon.ticks > 0
    /\ mon.pc = "done"
    /\ log.writer = "monitor"
    /\ sdr.afc.targetFreq # 700 * FreqScale

\* ------------------------------------------- the contextual repair's properties
\* The run loop of the test has finished: every input fed, CheckTimeout called.
RepairDone == Len(hist) = Len(RepairInputs) + 1
EndsWith(sentence, suffix) ==
    /\ Len(sentence) >= Len(suffix)
    /\ SubSeq(sentence, Len(sentence) - Len(suffix) + 1, Len(sentence)) = suffix

\* C27: after the pulses of T, of three dits and of E at 20 WPM with standard
\* character gaps, and CheckTimeout, the best sentence ends with "THE" when
\* the language model favours it.
C27_MissingDotRepaired ==
    (RepairDone /\ Jittered = {} /\ bd.lm = TheLM)
        => EndsWith(GetResult(bd), <<"T", "H", "E">>)

\* C27: what the decoder holds instead: whatever the table and the keying, no
\* path ever holds an "H", and with the standard timing the best sentence is
\* three characters of one, three and one pulses.
C27_NoRepairFromThreePulses ==
    /\ \A i \in DOMAIN bd.paths :
           \A k \in DOMAIN bd.paths[i].Sentence : bd.paths[i].Sentence[k] # "H"
    /\ (RepairDone /\ Jittered = {} /\ bd.lm = TheLM)
           => GetResult(bd) = <<"T", "S", "E">>

\* The run loop has finished on the standard timing with the table that
\* favours "THE".
C27_RepairRun == RepairDone /\ Jittered = {} /\ bd.lm = TheLM /\ GetResult(bd) # <<>>

\* ------------------------------------------- the returned transitions' properties
\* C36: every transition Feed has returned spans a strictly positive number of
\* samples, and the samples of all transitions returned so far add up to
\* stateStartSample: the finished states tile the time axis from sample 0.
C36_TransitionsTileTheTimeAxis ==
    /\ outs.count > 0 => outs.shortest > 0
    /\ ~ret.nil => ret.DurationMs > 0
    /\ outs.samples = st.stateStartSample

\* Three transitions have been returned and the state now running began at
\* sample 7, the end of the third.
C36_Witness ==
    /\ outs.count = 3
    /\ outs.shortest > 0
    /\ outs.samples = 7
    /\ st.stateStartSample = 7

\* C37: the transitions returned by successive Feed calls alternate in
\* FinishedState and the first one is a space (FALSE), SetThresholds calls
\* between the Feed calls notwithstanding.
C37_TransitionsAlternateFromSpace ==
    /\ outs.alternates
    /\ outs.count > 0 => ~outs.first
    /\ outs.count > 0 => outs.last = ~st.currentState

\* Space, mark, space have been returned, and the thresholds in force are no
\* longer the constructor's pair of this run.
C37_Witness ==
    /\ outs.count = 3
    /\ ~outs.first /\ ~outs.last
    /\ st.currentState
    /\ st.thresholdHigh = 2000

ObservedStats(dd) ==
    [DitStats |-> [StdDev |-> Analyze(dd.statsAnalyzer).DitStats.StdDev],
     DahStats |-> [StdDev |-> Analyze(dd.statsAnalyzer).DahStats.StdDev]]

\* C31: whenever the analysis of the marks the symbol buffer has observed is
\* valid, the standard deviations Step scores with are the dit and dah
\* deviations of that analysis; the fallback (0.2, 0.4) is used only while
\* the analysis is invalid.
C31_StepScoresWithObservedDeviations ==
    (Len(hist) > 0 /\ Last.stepped /\ Analyze(Last.d.statsAnalyzer).Valid)
        => Last.stats = ObservedStats(Last.d)

\* What Step does: the analyzer it asks is the beam decoder's own, which no
\* call feeds, so every Step scores with the fallback.
C31_StepAlwaysScoresWithFallback ==
    /\ bd.statsAnalyzer = NewAnalyzer(20)
    /\ \A i \in DOMAIN hist : hist[i].stats = CurrentStatsAlwaysFallback(bd)

\* A Step that extended the paths with the fallback although the symbol
\* buffer's analysis was valid.
C31_FallbackDespiteValidAnalysis ==
    /\ Len(hist) > 0
    /\ Last.stepped
    /\ Last.pathsStep # Last.pathsBefore
    /\ Analyze(Last.d.statsAnalyzer).Valid
    /\ Last.stats = CurrentStatsAlwaysFallback(bd)
    /\ Last.stats # ObservedStats(Last.d)

\* ------------------------------------------------------- what a step appends
\* The path extends one of the paths by the character of a pattern of the
\* given length.
ExtendsByOne(path, paths, length) ==
    \E j \in DOMAIN paths : \E k \in DOMAIN Patterns :
        /\ path.Sentence = Append(paths[j].Sentence, Patterns[k].Char)
        /\ path.LastChar = Patterns[k].Char
        /\ Len(Patterns[k].Sequence) = length

LastCandidates ==
    Expand(bd.lm, Last.stats, Last.pathsBefore, Last.stepInput, 1)

\* The survivor is a candidate, the only survivor with its LastChar, and no
\* candidate with its LastChar scores higher.
BestOfItsLastChar(survivor, survivors, candidates) ==
    /\ \E m \in DOMAIN candidates : candidates[m] = survivor
    /\ Cardinality({n \in DOMAIN survivors : survivors[n].LastChar = survivor.LastChar}) = 1
    /\ \A m \in DOMAIN candidates :
           candidates[m].LastChar = survivor.LastChar
               => candidates[m].TotalScore <= survivor.TotalScore

\* C34: of the candidates PrunePaths is given, the survivors hold, for each
\* LastChar among them, one candidate with that LastChar, the highest-scoring
\* one; every other candidate with that LastChar is discarded, and none of
\* the discarded ones outscores the survivor.
C34_SurvivorIsBestOfItsLastChar ==
    (Len(hist) > 0 /\ Last.stepped /\ ~NoCandidate(Last.stepInput))
        => \A n \in DOMAIN Last.pathsStep :
               BestOfItsLastChar(Last.pathsStep[n], Last.pathsStep, LastCandidates)

\* A pruning that discarded a candidate scoring strictly below the survivor
\* with its LastChar, though within the score window of the best.
C34_Witness ==
    /\ Len(hist) > 0
    /\ Last.stepped
    /\ ~NoCandidate(Last.stepInput)
    /\ \E n \in DOMAIN Last.pathsStep : \E m \in DOMAIN LastCandidates :
           /\ LastCandidates[m].LastChar = Last.pathsStep[n].LastChar
           /\ LastCandidates[m].TotalScore < Last.pathsStep[n].TotalScore
           /\ LastCandidates[m].TotalScore
                  >= Last.pathsStep[1].TotalScore - PruneThreshold * ScoreScale

\* ------------------------------------------------- one path per word boundary
\* C39: InjectSpace on paths that all have a non-empty sentence leaves
\* exactly one path, and it ends in the space: every other hypothesis for the
\* word just finished is discarded.
C39_InjectSpaceLeavesOnePath ==
    (Len(hist) > 0 /\ Last.spaced
        /\ \A n \in DOMAIN Last.pathsStep : Last.pathsStep[n].Sentence # <<>>)
        => /\ Len(bd.paths) = 1
           /\ bd.paths[1].LastChar = " "
           /\ bd.paths[1].Sentence[Len(bd.paths[1].Sentence)] = " "

\* A word gap after a step that had left two hypotheses.
C39_Witness ==
    /\ Len(hist) > 0
    /\ Last.spaced
    /\ Len(Last.pathsStep) >= 2
    /\ \A n \in DOMAIN Last.pathsStep : Last.pathsStep[n].Sentence # <<>>
    /\ Len(bd.paths) = 1

\* ------------------------------------------------- the learning rate's clip
\* The call that was just recorded settled a real mark through updateWPM1.
MarkObserved ==
    /\ Len(hist') = Len(hist) + 1
    /\ hist'[Len(hist')].branch = "settle"
    /\ hist'[Len(hist')].mark = "real"

\* What getThreshold returned for the pending mark, against the analysis
\* of the analyzer the call left behind.
RateAndThresholdFollow(g, stats, unit, baseAlpha) ==
    IF stats.Valid
    THEN /\ g.threshold = stats.OptimalThreshold
         /\ g.currentAlpha >= TruncDiv(AlphaScale * 5, 100)
         /\ g.currentAlpha <= TruncDiv(AlphaScale * 5, 10)
         /\ LET scaled == TruncDiv(baseAlpha * stats.Confidence, AlphaScale)
            IN  (scaled >= TruncDiv(AlphaScale * 5, 100)
                 /\ scaled <= TruncDiv(AlphaScale * 5, 10)) => g.currentAlpha = scaled
    ELSE /\ g.threshold = TruncDiv(unit * 22, 10)
         /\ g.currentAlpha = baseAlpha

\* C35: when the analysis is valid, getThreshold returns the analysis'
\* optimal threshold and UpdateAlpha x confidence clipped to [0.05, 0.5];
\* when it is not, it returns 2.2 x unit_time and UpdateAlpha as it is.
C35_RateClippedOnlyWhenValid ==
    [][MarkObserved
          => /\ d'.statsAnalyzer = AddObservation(d.statsAnalyzer, d.pendingMarkDuration)
             /\ RateAndThresholdFollow(GetThreshold(d, d.pendingMarkDuration),
                                       Analyze(d'.statsAnalyzer), d.unitTime,
                                       d.cfg.UpdateAlpha)]_vars

\* Two marks observed by the decoder whose UpdateAlpha is 0, the first with
\* an analysis that was not valid yet, the second with a valid one: the unit
\* time moved, at the rate 0.05.
C35_Witness ==
    /\ Len(hist) = 4
    /\ hist[2].branch = "settle"
    /\ hist[2].mark = "real"
    /\ ~Analyze(hist[2].d.statsAnalyzer).Valid
    /\ hist[2].d.unitTime = NewCWDecoder(d.cfg).unitTime
    /\ Last.branch = "settle"
    /\ Last.mark = "real"
    /\ Analyze(d.statsAnalyzer).Valid
    /\ d.cfg.UpdateAlpha = 0
    /\ d.unitTime # NewCWDecoder(d.cfg).unitTime

\* ------------------------------------------------------ when the AFC adjusts
\* The correction Update applies once it acts on a frequency error.
Adjusted(a, freqError) ==
    ClampFreq(a.CurrentFreq + TruncDiv(freqError * AfcGainNum, AfcGainDen), a.targetFreq)

\* C33: a sample at or below the gate resets the consecutive counter and
\* leaves CurrentFreq alone; an above-gate sample adjusts CurrentFreq only if
\* at least 5 consecutive above-gate samples precede it, and does adjust it as
\* soon as 5 precede it and the frequency error is beyond the dead-band.
C33_AdjustsOnceFiveSamplesPrecede ==
    [][\A envelope \in TuneEnvelopes : \A freqError \in AfcErrors \cup {0} :
           Update(envelope, freqError)
               => /\ envelope <= AfcGate
                         => /\ sdr'.afc.signalConsecutive = 0
                            /\ sdr'.afc.CurrentFreq = sdr.afc.CurrentFreq
                  /\ (envelope > AfcGate /\ sdr'.afc.CurrentFreq # sdr.afc.CurrentFreq)
                         => sdr.afc.signalConsecutive >= 5
                  /\ (envelope > AfcGate /\ sdr.afc.signalConsecutive >= 5
                      /\ Abs(freqError) > AfcDeadband * FreqScale)
                         => sdr'.afc.CurrentFreq = Adjusted(sdr.afc, freqError)]_vars

\* What Update does: the counter has to be above 5, so six above-gate
\* samples precede the first one that adjusts CurrentFreq.
C33_AdjustsOnceSixSamplesPrecede ==
    [][\A envelope \in TuneEnvelopes : \A freqError \in AfcErrors \cup {0} :
           Update(envelope, freqError)
               => /\ envelope <= AfcGate
                         => /\ sdr'.afc.signalConsecutive = 0
                            /\ sdr'.afc.CurrentFreq = sdr.afc.CurrentFreq
                  /\ (envelope > AfcGate /\ sdr'.afc.CurrentFreq # sdr.afc.CurrentFreq)
                         => sdr.afc.signalConsecutive >= 6
                  /\ (envelope > AfcGate /\ sdr.afc.signalConsecutive >= 6
                      /\ Abs(freqError) > AfcDeadband * FreqScale)
                         => sdr'.afc.CurrentFreq = Adjusted(sdr.afc, freqError)]_vars

\* Six above-gate samples taken and CurrentFreq still where it started; the
\* seventh has moved it.
C33_SixSamplesUnadjusted ==
    /\ log.samples = 6
    /\ log.calls = <<>>
    /\ sdr.afc.signalConsecutive = 6
    /\ sdr.afc.CurrentFreq = sdr.afc.targetFreq
C33_SeventhSampleAdjusts ==
    /\ log.samples = 7
    /\ log.calls = <<>>
    /\ sdr.afc.signalConsecutive = 7
    /\ sdr.afc.CurrentFreq # sdr.afc.targetFreq

\* ------------------------------------------------ nothing decoded before lock
\* C40: a chunk reaches decoder.ProcessAudioChunk only if calibration had
\* locked before the chunk arrived; a chunk that arrives before the lock, the
\* locking chunk included, is consumed by calibration and leaves the decoder
\* as it was; and isCalibrated, once true, stays true.
C40_DecodedOnlyAfterLock ==
    [][/\ sys.isCalibrated => sys'.isCalibrated
       /\ exp'.samplesProcessed # exp.samplesProcessed => sys.isCalibrated
       /\ (~sys.isCalibrated /\ sys'.file # sys.file)
              => /\ exp' = exp
                 /\ st' = st
                 /\ d' = d
                 /\ bd' = bd
                 /\ sink' = sink]_vars

\* A recording of which calibration took the four full chunks and locked on
\* the fourth, retuning the demodulator, and the decoder took the last chunk.
C40_Witness ==
    /\ sys.isCalibrated
    /\ sys.file = NoFile
    /\ sdr.afc.targetFreq = 600 * FreqScale
    /\ exp.samplesProcessed = MaxTail

====
